---- MODULE Spec2Model ----
(***************************************************************************)
(* Model of the CSI statistical analysis scripts: the weighted-factor risk *)
(* scores, the validation functions of csi_stats/validation.py, the        *)
(* descriptive statistics of csi_stats/statistics.py and the pipeline of   *)
(* csi_statistical_analysis.py.                                            *)
(*                                                                         *)
(* Encodings.  A table cell is an integer; a boolean cell is 1 or 0 (as    *)
(* astype(int) reads it) and a missing cell is NaN.  A real number that    *)
(* the code computes by division is a pair <<num, den>> with den > 0; the  *)
(* floating-point NaN is the pair <<0, 0>>; Python's None is the pair      *)
(* <<0, -1>>.  What a call produced is a record: NotCalled before the      *)
(* call, Returned(v) when it returned v and Raised when an exception left  *)
(* it.                                                                     *)
(***************************************************************************)
EXTENDS Integers, Sequences, FiniteSets, TLC

(***************************************************************************)
(* Bounds of the model.                                                    *)
(***************************************************************************)
\* largest number of factor columns present in a table given to the scorers
MaxCols == 2
\* largest number of entities in a table given to the scorers
MaxEntities == 1

\* largest number of observation pairs given to spearman_with_ci
MaxPairs == 3

\* largest number of entities given to roc_analysis
MaxRoc == 3
\* n_bootstraps of roc_analysis (1000 in the source)
MaxBootstraps == 2

\* largest number of entities given to confusion_matrix_analysis
MaxCm == 4
\* largest number of entities given to compare_models
MaxCompare == 10

\* largest number of entities given to loocv_accuracy
MaxLoo == 3

\* largest number of clients in the metric table of the pipeline
MaxClients == 3

\* largest count in one cell of the confusion matrix
MaxCell == 9

\* largest number of entities given to the threshold sweep
MaxSweep == 3

\* largest number of survey responses given to _is_declining_2_periods
MaxResponses == 4

(***************************************************************************)
(* Generic helpers.                                                        *)
(***************************************************************************)
\* numpy's NaN in an integer-valued cell (outside every data range used)
NaN == -999999

isnan(v) == v = NaN

RECURSIVE SumSeq(_)
\* Python's sum() over a sequence of integers
SumSeq(s) == IF s = <<>> THEN 0 ELSE Head(s) + SumSeq(Tail(s))

RECURSIVE SumSet(_, _)
\* sum of f[e] over the elements e of the finite set S
SumSet(S, f) ==
    IF S = {} THEN 0
    ELSE LET e == CHOOSE e \in S : TRUE IN f[e] + SumSet(S \ {e}, f)

Range(s) == {s[i] : i \in DOMAIN s}

RECURSIVE Select(_, _, _)
\* numpy boolean indexing a[mask]: the elements of a, from index k on, at
\* which mask is TRUE, in order
Select(a, mask, k) ==
    IF k > Len(a) THEN <<>>
    ELSE (IF mask[k] THEN <<a[k]>> ELSE <<>>) \o Select(a, mask, k + 1)

\* real numbers as pairs <<num, den>>, den > 0; <<0, 0>> is float NaN
FNaN == <<0, 0>>
IsFNaN(q) == q[2] = 0
RLess(p, q) == ~IsFNaN(p) /\ ~IsFNaN(q) /\ p[1] * q[2] < q[1] * p[2]
RLeq(p, q) == ~IsFNaN(p) /\ ~IsFNaN(q) /\ p[1] * q[2] <= q[1] * p[2]
REq(p, q) == ~IsFNaN(p) /\ ~IsFNaN(q) /\ p[1] * q[2] = q[1] * p[2]

RECURSIVE Gcd(_, _)
Gcd(a, b) == IF b = 0 THEN a ELSE Gcd(b, a % b)

\* the pair of a real in lowest terms (a float has one value per real)
Norm(q) ==
    IF q[2] <= 0 THEN q
    ELSE LET g == Gcd(IF q[1] < 0 THEN -q[1] ELSE q[1], q[2])
         IN  <<q[1] \div g, q[2] \div g>>

RECURSIVE RSort(_)
\* the reals of a sequence in ascending order
RSort(a) ==
    IF a = <<>> THEN <<>>
    ELSE LET k == CHOOSE k \in 1..Len(a) : \A j \in 1..Len(a) : RLeq(a[k], a[j])
         IN  <<a[k]>> \o RSort([i \in 1..(Len(a) - 1) |->
                                    IF i < k THEN a[i] ELSE a[i + 1]])

\* Python's None where a float is expected
None == <<0, -1>>
IsNone(q) == q[2] = -1

\* outcome of a call
NotCalled == [kind |-> "not called"]
Returned(v) == [kind |-> "returned", value |-> v]
Raised == [kind |-> "raised"]

(***************************************************************************)
(* Risk scoring: validation.py, FACTORS_V1 / FACTORS_V2 and the two        *)
(* calculate_arm functions.  A weight table is the ordered list of its     *)
(* <<factor, weight>> items, as dict.items() yields them.                  *)
(***************************************************************************)
FACTORS_V1 == <<
    <<"csuite_turnover", 17>>,
    <<"ma_attrition", 15>>,
    <<"strategic_ops_lt2", 12>>,
    <<"nps_detractor", 10>>,
    <<"nps_no_response", 10>>,
    <<"no_event_attendance", 10>>,
    <<"not_current_sw", 9>>,
    <<"resolution_sla_lt90", 5>>,
    <<"nps_promoter", -5>> >>

FACTORS_V2 == <<
    <<"backlog_gt10", 15>>,
    <<"nps_detractor", 12>>,
    <<"avg_resolution_gt700h", 10>>,
    <<"tech_knowledge_gap", 10>>,
    <<"not_current_sw", 9>>,
    <<"defect_rate_gt30", 8>>,
    <<"nps_no_response", 8>>,
    <<"ma_attrition", 7>>,
    <<"strategic_ops_lt2", 6>>,
    <<"csuite_turnover", 5>>,
    <<"nps_declining_2plus", 4>>,
    <<"no_event_attendance", 4>>,
    <<"communication_transparency", -8>>,
    <<"nps_promoter", -5>> >>

\* a mutation of the v1 mapping: the resolution factor read from the
\* column of the v2 resolution-time factor
factor_mapping_v1_crossed ==
    [csuite_turnover |-> "factor_csuite_turnover",
     ma_attrition |-> "factor_ma_attrition",
     strategic_ops_lt2 |-> "factor_strategic_ops_lt2",
     nps_detractor |-> "is_detractor",
     nps_no_response |-> "factor_nps_no_response",
     no_event_attendance |-> "factor_no_event_attendance",
     not_current_sw |-> "factor_not_current_sw",
     resolution_sla_lt90 |-> "factor_resolution_gt700h",
     nps_promoter |-> "is_promoter"]

\* factor_mapping of calculate_arm_v1
factor_mapping_v1 ==
    [csuite_turnover |-> "factor_csuite_turnover",
     ma_attrition |-> "factor_ma_attrition",
     strategic_ops_lt2 |-> "factor_strategic_ops_lt2",
     nps_detractor |-> "is_detractor",
     nps_no_response |-> "factor_nps_no_response",
     no_event_attendance |-> "factor_no_event_attendance",
     not_current_sw |-> "factor_not_current_sw",
     resolution_sla_lt90 |-> "factor_resolution_sla_lt90",
     nps_promoter |-> "is_promoter"]

\* factor_mapping of calculate_arm_v2
factor_mapping_v2 ==
    [backlog_gt10 |-> "factor_backlog_gt10",
     nps_detractor |-> "is_detractor",
     avg_resolution_gt700h |-> "factor_resolution_gt700h",
     tech_knowledge_gap |-> "factor_tech_knowledge_gap",
     not_current_sw |-> "factor_not_current_sw",
     defect_rate_gt30 |-> "factor_defect_rate_gt30",
     nps_no_response |-> "factor_nps_no_response",
     ma_attrition |-> "factor_ma_attrition",
     strategic_ops_lt2 |-> "factor_strategic_ops_lt2",
     csuite_turnover |-> "factor_csuite_turnover",
     nps_declining_2plus |-> "declining_2_periods",
     no_event_attendance |-> "factor_no_event_attendance",
     communication_transparency |-> "factor_communication",
     nps_promoter |-> "is_promoter"]

\* every column one of the two scorers reads
FactorColumns ==
    {factor_mapping_v1[f] : f \in DOMAIN factor_mapping_v1}
        \cup {factor_mapping_v2[f] : f \in DOMAIN factor_mapping_v2}

\* a mutation of fillna: the missing cell is read as True
fillna_true(v, value) == IF isnan(v) THEN 1 ELSE v

\* Series.fillna(value): a missing cell becomes value
fillna(v, value) == IF isnan(v) THEN value ELSE v

\* one iteration of the scoring loop for one row: the column's 0/1 value
\* times the weight when the column is in df.columns, nothing otherwise
ArmTerm(columns, row, col, weight) ==
    IF col \in columns THEN fillna(row[col], 0) * weight ELSE 0

RECURSIVE ArmLoopAssigns(_, _, _, _, _)
\* a mutation of the loop: "arm = ..." for "arm += ...", which leaves the
\* term of the last item whose column the table has
ArmLoopAssigns(FACTORS, mapping, columns, row, k) ==
    IF k > Len(FACTORS) THEN 0
    ELSE IF \E j \in (k + 1)..Len(FACTORS) :
                 mapping[FACTORS[j][1]] \in columns
         THEN ArmLoopAssigns(FACTORS, mapping, columns, row, k + 1)
         ELSE ArmTerm(columns, row, mapping[FACTORS[k][1]], FACTORS[k][2])

RECURSIVE ArmLoop(_, _, _, _, _)
\* the loop "for factor, weight in FACTORS.items()" for one row, from the
\* k-th item on, added to the accumulator arm
ArmLoop(FACTORS, mapping, columns, row, k) ==
    IF k > Len(FACTORS) THEN 0
    ELSE ArmTerm(columns, row, mapping[FACTORS[k][1]], FACTORS[k][2])
             + ArmLoop(FACTORS, mapping, columns, row, k + 1)

\* the body shared by the two scorers: arm starts at 0 for every row of df
\* and the loop runs over the items of the weight table the module holds
\* when the call is made
calculate_arm(FACTORS, mapping, d) ==
    [i \in 1..Len(d.rows) |->
        ArmLoop(FACTORS, mapping, d.columns, d.rows[i], 1)]

\* calculate_arm_v1(df): the Series of scores, one per row of df
calculate_arm_v1(d) == calculate_arm(FACTORS_V1, factor_mapping_v1, d)

\* calculate_arm_v2(df)
calculate_arm_v2(d) == calculate_arm(FACTORS_V2, factor_mapping_v2, d)

(***************************************************************************)
(* State.                                                                  *)
(***************************************************************************)
VARIABLES
    df,         \* the table handed to the scorers: [columns, rows]
    arm_v1,     \* outcome of calculate_arm_v1(df)
    arm_v2,     \* outcome of calculate_arm_v2(df)
    sp_x,       \* spearman_with_ci: first variable array
    sp_y,       \* spearman_with_ci: second variable array
    sp_result,  \* outcome of spearman_with_ci(sp_x, sp_y)
    sp_boot,    \* what the try block around bootstrap(...) met
    roc_y_true,         \* roc_analysis: y_true as passed
    roc_y_scores,       \* roc_analysis: y_scores as passed
    roc_n_bootstraps,   \* roc_analysis: n_bootstraps as passed
    roc_pc,             \* roc_analysis: position ("start", "bootstrap", "done")
    roc_iter,           \* roc_analysis: bootstrap iterations completed
    auc_scores,         \* roc_analysis: auc_scores
    roc_result,         \* outcome of roc_analysis
    cm_y_true,          \* confusion_matrix_analysis: y_true
    cm_y_pred,          \* confusion_matrix_analysis: y_pred
    cm_result,          \* outcome of confusion_matrix_analysis
    cmp_y_true,         \* compare_models: y_true
    cmp_pred_v1,        \* compare_models: pred_v1
    cmp_pred_v2,        \* compare_models: pred_v2
    cmp_result,         \* outcome of compare_models
    loo_y,              \* loocv_accuracy: y, the label of each entity
    loo_model,          \* loocv_accuracy: what model_func does on each
                        \* held-out entity ("p0", "p1" or "raise")
    loo_fold,           \* loocv_accuracy: folds completed
    loo_calls,          \* loocv_accuracy: the calls made to model_func
    loo_predictions,    \* loocv_accuracy: predictions
    loo_actuals,        \* loocv_accuracy: actuals
    loo_result,         \* outcome of loocv_accuracy
    main_pc,            \* main: the section of the pipeline to run next
    df_metrics,         \* main: df_metrics
    power,              \* main: power
    correlations,       \* main: correlations
    loocv_result,       \* main: loocv_result
    roc_v1,             \* main: roc_v1
    roc_v2,             \* main: roc_v2
    comparison,         \* main: comparison
    cm,                 \* main: cm
    threshold_results,  \* main: threshold_results
    optimal,            \* main: optimal
    json_output,        \* main: json_output
    json_file,          \* the file written by generate_json_output
    sw_metric,          \* threshold sweep: metric_values
    sw_nps,             \* threshold sweep: nps_values
    sw_thresh_df,       \* threshold sweep: thresh_df
    sw_optimal,         \* threshold sweep: optimal
    dc_df_nps,          \* _is_declining_2_periods: df_nps
    dc_result,          \* outcome of _is_declining_2_periods
    ft_df,              \* apply_factor_thresholds: df
    ft_result,          \* outcome of apply_factor_thresholds
    cd_group1,          \* cohens_d: group1
    cd_group2,          \* cohens_d: group2
    cd_result,          \* outcome of cohens_d
    bf_p_values,        \* apply_bonferroni_correction: p_values
    bf_alpha,           \* apply_bonferroni_correction: alpha
    bf_result,          \* outcome of apply_bonferroni_correction
    ct_df,              \* predictions: the scored table
    ct_cut,             \* predictions: the cut the caller asks for
    ct_result,          \* predictions: csi and pred columns, LOOCV prediction
    factors_v1,         \* the module-level dict FACTORS_V1, in insertion order
    factors_v2,         \* the module-level dict FACTORS_V2, in insertion order
    al_store,           \* the rows of client_name_aliases in the datastore
    al_cache,           \* the module-level dict _client_alias_cache
    al_fetches,         \* the number of queries sent to the datastore
    al_calls,           \* the number of calls made so far
    al_result           \* what the last call returned

scoreVars == <<df, arm_v1, arm_v2>>

spVars == <<sp_x, sp_y, sp_result, sp_boot>>

rocVars == <<roc_y_true, roc_y_scores, roc_n_bootstraps, roc_pc, roc_iter,
             auc_scores, roc_result>>

cmVars == <<cm_y_true, cm_y_pred, cm_result>>

cmpVars == <<cmp_y_true, cmp_pred_v1, cmp_pred_v2, cmp_result>>

looVars == <<loo_y, loo_model, loo_fold, loo_calls, loo_predictions,
             loo_actuals, loo_result>>

mainVars == <<main_pc, df_metrics, power, correlations, loocv_result,
              roc_v1, roc_v2, comparison, cm, threshold_results, optimal,
              json_output, json_file>>

sweepVars == <<sw_metric, sw_nps, sw_thresh_df, sw_optimal>>

declVars == <<dc_df_nps, dc_result>>

factVars == <<ft_df, ft_result>>

cohenVars == <<cd_group1, cd_group2, cd_result>>

bonfVars == <<bf_p_values, bf_alpha, bf_result>>

cutVars == <<ct_df, ct_cut, ct_result>>

tableVars == <<factors_v1, factors_v2>>

aliasVars == <<al_store, al_cache, al_fetches, al_calls, al_result>>

\* the module-level state of validation.py and extract.py
lastVars == <<tableVars, aliasVars>>

\* the variables of the single-function specifications added last
laterVars == <<sweepVars, declVars, factVars, cohenVars, bonfVars, cutVars,
               lastVars>>

vars == <<df, arm_v1, arm_v2, sp_x, sp_y, sp_result, sp_boot,
          roc_y_true, roc_y_scores, roc_n_bootstraps, roc_pc, roc_iter,
          auc_scores, roc_result, cm_y_true, cm_y_pred, cm_result,
          cmp_y_true, cmp_pred_v1, cmp_pred_v2, cmp_result,
          loo_y, loo_model, loo_fold, loo_calls, loo_predictions,
          loo_actuals, loo_result,
          main_pc, df_metrics, power, correlations, loocv_result, roc_v1,
          roc_v2, comparison, cm, threshold_results, optimal, json_output,
          json_file,
          sw_metric, sw_nps, sw_thresh_df, sw_optimal, dc_df_nps, dc_result,
          ft_df, ft_result, cd_group1, cd_group2, cd_result, bf_p_values,
          bf_alpha, bf_result, ct_df, ct_cut, ct_result,
          factors_v1, factors_v2, al_store, al_cache, al_fetches, al_calls,
          al_result>>

\* the variables of the operations other than the one under analysis
notScore == <<spVars, rocVars, cmVars, cmpVars, looVars, mainVars,
    laterVars>>
notSp == <<scoreVars, rocVars, cmVars, cmpVars, looVars, mainVars,
    laterVars>>
notRoc == <<scoreVars, spVars, cmVars, cmpVars, looVars, mainVars,
    laterVars>>
notCm == <<scoreVars, spVars, rocVars, cmpVars, looVars, mainVars,
    laterVars>>
notCmp == <<scoreVars, spVars, rocVars, cmVars, looVars, mainVars,
    laterVars>>
notLoo == <<scoreVars, spVars, rocVars, cmVars, cmpVars, mainVars,
    laterVars>>
notMain == <<scoreVars, spVars, rocVars, cmVars, cmpVars, looVars,
    laterVars>>

\* the variables of an operation that is not under analysis
ScoreIdle ==
    /\ df = [columns |-> {}, rows |-> <<>>]
    /\ arm_v1 = NotCalled
    /\ arm_v2 = NotCalled

SpIdle ==
    /\ sp_x = <<>>
    /\ sp_y = <<>>
    /\ sp_result = NotCalled
    /\ sp_boot = NotCalled

CmIdle ==
    /\ cm_y_true = <<>>
    /\ cm_y_pred = <<>>
    /\ cm_result = NotCalled

CmpIdle ==
    /\ cmp_y_true = <<>>
    /\ cmp_pred_v1 = <<>>
    /\ cmp_pred_v2 = <<>>
    /\ cmp_result = NotCalled

RocIdle ==
    /\ roc_y_true = <<>>
    /\ roc_y_scores = <<>>
    /\ roc_n_bootstraps = 0
    /\ roc_pc = "idle"
    /\ roc_iter = 0
    /\ auc_scores = <<>>
    /\ roc_result = NotCalled

LooIdle ==
    /\ loo_y = <<>>
    /\ loo_model = <<>>
    /\ loo_fold = 0
    /\ loo_calls = <<>>
    /\ loo_predictions = <<>>
    /\ loo_actuals = <<>>
    /\ loo_result = NotCalled

earlierVars == <<scoreVars, spVars, rocVars, cmVars, cmpVars, looVars,
                 mainVars>>
notSweep == <<earlierVars, declVars, factVars, cohenVars, bonfVars, cutVars,
              lastVars>>
notDecl == <<earlierVars, sweepVars, factVars, cohenVars, bonfVars, cutVars,
             lastVars>>
notFact == <<earlierVars, sweepVars, declVars, cohenVars, bonfVars, cutVars,
             lastVars>>
notCohen == <<earlierVars, sweepVars, declVars, factVars, bonfVars, cutVars,
              lastVars>>
notBonf == <<earlierVars, sweepVars, declVars, factVars, cohenVars, cutVars,
             lastVars>>
notCut == <<earlierVars, sweepVars, declVars, factVars, cohenVars, bonfVars,
            lastVars>>
notAlias == <<earlierVars, sweepVars, declVars, factVars, cohenVars, bonfVars,
              cutVars, tableVars>>

SweepIdle ==
    /\ sw_metric = <<>>
    /\ sw_nps = <<>>
    /\ sw_thresh_df = NotCalled
    /\ sw_optimal = NotCalled

DeclIdle ==
    /\ dc_df_nps = <<>>
    /\ dc_result = NotCalled

FactIdle ==
    /\ ft_df = NotCalled
    /\ ft_result = NotCalled

CohenIdle ==
    /\ cd_group1 = <<>>
    /\ cd_group2 = <<>>
    /\ cd_result = NotCalled

BonfIdle ==
    /\ bf_p_values = <<>>
    /\ bf_alpha = <<1, 20>>
    /\ bf_result = NotCalled

CutIdle ==
    /\ ct_df = NotCalled
    /\ ct_cut = 0
    /\ ct_result = NotCalled

\* the weight tables as the module defines them
TableIdle ==
    /\ factors_v1 = FACTORS_V1
    /\ factors_v2 = FACTORS_V2

\* extract.py just imported: the cache is the empty dict
AliasIdle ==
    /\ al_store = <<>>
    /\ al_cache = <<>>
    /\ al_fetches = 0
    /\ al_calls = 0
    /\ al_result = NotCalled

MainIdle ==
    /\ main_pc = "idle"
    /\ df_metrics = NotCalled
    /\ power = NotCalled
    /\ correlations = NotCalled
    /\ loocv_result = NotCalled
    /\ roc_v1 = NotCalled
    /\ roc_v2 = NotCalled
    /\ comparison = NotCalled
    /\ cm = NotCalled
    /\ threshold_results = NotCalled
    /\ optimal = NotCalled
    /\ json_output = NotCalled
    /\ json_file = NotCalled

\* every operation but the named one is idle
OthersIdle(me) ==
    /\ me \in {"score", "order"} \/ ScoreIdle
    /\ me = "spearman" \/ SpIdle
    /\ me = "roc" \/ RocIdle
    /\ me = "cm" \/ CmIdle
    /\ me = "compare" \/ CmpIdle
    /\ me = "loocv" \/ LooIdle
    /\ me = "main" \/ MainIdle
    /\ me = "sweep" \/ SweepIdle
    /\ me = "declining" \/ DeclIdle
    /\ me = "factors" \/ FactIdle
    /\ me = "cohen" \/ CohenIdle
    /\ me = "bonferroni" \/ BonfIdle
    /\ me = "cut" \/ CutIdle
    /\ me = "order" \/ TableIdle
    /\ me = "alias" \/ AliasIdle

(***************************************************************************)
(* Specification of the scorers: any table whose factor columns are a      *)
(* subset of the columns the scorers read, with boolean or missing cells.  *)
(***************************************************************************)
\* the sets of factor columns a table may carry
ColumnSets == {S \in SUBSET FactorColumns : Cardinality(S) <= MaxCols}

ScoreInit ==
    /\ \E C \in ColumnSets : \E n \in 1..MaxEntities :
         \E r \in [1..n -> [C -> {0, 1, NaN}]] :
            df = [columns |-> C, rows |-> r]
    /\ arm_v1 = NotCalled
    /\ arm_v2 = NotCalled
    /\ OthersIdle("score")

ScoreV1 ==
    /\ arm_v1 = NotCalled
    /\ arm_v1' = Returned(calculate_arm(factors_v1, factor_mapping_v1, df))
    /\ UNCHANGED <<df, arm_v2, notScore>>

ScoreV2 ==
    /\ arm_v2 = NotCalled
    /\ arm_v2' = Returned(calculate_arm(factors_v2, factor_mapping_v2, df))
    /\ UNCHANGED <<df, arm_v1, notScore>>

ScoreNext == ScoreV1 \/ ScoreV2

SpecScore == ScoreInit /\ [][ScoreNext]_vars

(***************************************************************************)
(* C1.  For every entity and each model version the score is exactly the   *)
(* sum of the weights of the factors of that version's weight table whose  *)
(* mapped column is present in the table and true for the entity; an       *)
(* absent column or a missing cell contributes 0 and the call returns.     *)
(***************************************************************************)
WeightOf(FACTORS) == [f \in {FACTORS[k][1] : k \in DOMAIN FACTORS} |->
    (CHOOSE k \in DOMAIN FACTORS : FACTORS[k][1] = f)]

ActiveWeightSum(FACTORS, mapping, d, i) ==
    LET names  == {FACTORS[k][1] : k \in DOMAIN FACTORS}
        active == {f \in names : /\ mapping[f] \in d.columns
                                 /\ d.rows[i][mapping[f]] = 1}
        w      == [f \in names |-> FACTORS[WeightOf(FACTORS)[f]][2]]
    IN  SumSet(active, w)

C1_ArmIsActiveWeightSum ==
    /\ arm_v1 /= NotCalled =>
          /\ arm_v1.kind = "returned"
          /\ DOMAIN arm_v1.value = 1..Len(df.rows)
          /\ \A i \in 1..Len(df.rows) :
                arm_v1.value[i] =
                    ActiveWeightSum(FACTORS_V1, factor_mapping_v1, df, i)
    /\ arm_v2 /= NotCalled =>
          /\ arm_v2.kind = "returned"
          /\ DOMAIN arm_v2.value = 1..Len(df.rows)
          /\ \A i \in 1..Len(df.rows) :
                arm_v2.value[i] =
                    ActiveWeightSum(FACTORS_V2, factor_mapping_v2, df, i)

\* both scores computed for a table that lacks a column of each weight
\* table, with one entity holding a missing cell and a true cell
C1_Witness ==
    /\ arm_v1.kind = "returned"
    /\ arm_v2.kind = "returned"
    /\ "is_detractor" \in df.columns
    /\ "factor_csuite_turnover" \notin df.columns
    /\ \E i \in DOMAIN df.rows :
          /\ df.rows[i]["is_detractor"] = 1
          /\ \E c \in df.columns : isnan(df.rows[i][c])
          /\ arm_v1.value[i] = 10
          /\ arm_v2.value[i] = 12

(***************************************************************************)
(* Rank correlation with interval: statistics.py, spearman_with_ci.        *)
(* scipy's spearmanr and bootstrap are library calls: the coefficient, the *)
(* p-value and the interval they return are drawn from small grids; the    *)
(* coefficient is NaN exactly when one cleaned array is constant, and the  *)
(* bootstrap either raises or returns two percentiles of one distribution. *)
(***************************************************************************)
confidence == <<95, 100>>

\* a mutation of PairMask: a pair is dropped only when both sides are missing
PairMaskBoth(x, y) == [i \in 1..Len(x) |-> ~(isnan(x[i]) /\ isnan(y[i]))]

\* mask = ~(np.isnan(x) | np.isnan(y))
PairMask(x, y) == [i \in 1..Len(x) |-> ~(isnan(x[i]) \/ isnan(y[i]))]

\* what spearmanr(x_clean, y_clean) may return as <<rho, p_value>>
SpearmanrOutcomes(x_clean, y_clean) ==
    IF Cardinality(Range(x_clean)) <= 1 \/ Cardinality(Range(y_clean)) <= 1
    THEN {<<FNaN, FNaN>>}
    ELSE {<<-1, 2>>, <<0, 1>>, <<1, 2>>} \X {<<1, 100>>, <<1, 2>>}

\* the intervals bootstrap(...) may return as <<low, high>>
BootstrapIntervals ==
    {<<FNaN, FNaN>>}
        \cup {b \in {<<-1, 2>>, <<0, 1>>, <<1, 2>>}
                      \X {<<-1, 2>>, <<0, 1>>, <<1, 2>>} : RLeq(b[1], b[2])}

\* lines 57-68, what the try block may meet: bootstrap(...) raises, or it
\* returns an interval and the assignment of ci_lower or of ci_upper
\* raises, or nothing raises
BootstrapCalls ==
    {[raises |-> "bootstrap", interval |-> <<None, None>>]}
        \cup [raises : {"ci_lower", "ci_upper", "no"},
              interval : BootstrapIntervals]

\* an except branch that resets ci_upper alone, leaving the ci_lower the
\* try block had already assigned
TryBootstrapUpperOnly(o) ==
    IF o.raises = "ci_upper" THEN <<o.interval[1], None>>
    ELSE IF o.raises /= "no" THEN <<None, None>>
    ELSE o.interval

\* lines 57-72: <<ci_lower, ci_upper>> after the try statement; the except
\* branch sets both to None
TryBootstrap(o) ==
    IF o.raises /= "no" THEN <<None, None>> ELSE o.interval

\* what the try statement may leave in <<ci_lower, ci_upper>>
BootstrapOutcomes == {TryBootstrap(o) : o \in BootstrapCalls}

\* 1 - confidence
OneMinus(q) == <<q[2] - q[1], q[2]>>

\* spearman_with_ci(x, y) with the library outcomes sr and ci chosen
spearman_with_ci(x, y, sr, ci) ==
    LET mask    == PairMask(x, y)
        x_clean == Select(x, mask, 1)
        y_clean == Select(y, mask, 1)
    IN  IF Len(x_clean) < 3
        THEN [rho |-> FNaN, p_value |-> FNaN, ci_lower |-> FNaN,
              ci_upper |-> FNaN, n |-> Len(x_clean), significant |-> FALSE]
        ELSE [rho |-> sr[1], p_value |-> sr[2], ci_lower |-> ci[1],
              ci_upper |-> ci[2], n |-> Len(x_clean),
              significant |-> RLess(sr[2], OneMinus(confidence))]

SpInit ==
    /\ \E n \in 0..MaxPairs :
          /\ sp_x \in [1..n -> {NaN, 1, 2}]
          /\ sp_y \in [1..n -> {NaN, 1, 2}]
    /\ sp_result = NotCalled
    /\ sp_boot = NotCalled
    /\ OthersIdle("spearman")

SpearmanWithCi ==
    /\ sp_result = NotCalled
    /\ LET mask    == PairMask(sp_x, sp_y)
           x_clean == Select(sp_x, mask, 1)
           y_clean == Select(sp_y, mask, 1)
       IN  IF Len(x_clean) < 3
           THEN /\ sp_result' = Returned(spearman_with_ci(
                                    sp_x, sp_y, <<FNaN, FNaN>>, <<FNaN, FNaN>>))
                /\ sp_boot' = NotCalled
           ELSE \E sr \in SpearmanrOutcomes(x_clean, y_clean) :
                  \E o \in BootstrapCalls :
                     /\ sp_result' = Returned(spearman_with_ci(
                                         sp_x, sp_y, sr, TryBootstrap(o)))
                     /\ sp_boot' = o
    /\ UNCHANGED <<sp_x, sp_y, notSp>>

SpNext == SpearmanWithCi

SpecSpearman == SpInit /\ [][SpNext]_vars

(***************************************************************************)
(* C4.  spearman_with_ci drops every pair with a missing side; when fewer  *)
(* than 3 pairs remain it returns the fully-null record: rho, p_value,     *)
(* ci_lower and ci_upper undefined, significant false, n the number of     *)
(* remaining pairs.                                                        *)
(***************************************************************************)
CompletePairs(x, y) == {i \in 1..Len(x) : x[i] /= NaN /\ y[i] /= NaN}

C4_FewPairsGiveNullResult ==
    (sp_result /= NotCalled /\ Cardinality(CompletePairs(sp_x, sp_y)) < 3) =>
        /\ sp_result.kind = "returned"
        /\ sp_result.value =
              [rho |-> FNaN, p_value |-> FNaN, ci_lower |-> FNaN,
               ci_upper |-> FNaN, significant |-> FALSE,
               n |-> Cardinality(CompletePairs(sp_x, sp_y))]

C4_RemovesIncompletePairs ==
    sp_result /= NotCalled =>
        sp_result.value.n = Cardinality(CompletePairs(sp_x, sp_y))

C4_SpearmanNull == C4_FewPairsGiveNullResult /\ C4_RemovesIncompletePairs

\* three pairs given, one with a missing side: two remain, the null record
C4_Witness ==
    /\ sp_result.kind = "returned"
    /\ Len(sp_x) = 3
    /\ \E i \in 1..3 : isnan(sp_x[i]) /\ ~isnan(sp_y[i])
    /\ sp_result.value.n = 2
    /\ IsFNaN(sp_result.value.rho)
    /\ sp_result.value.significant = FALSE

(***************************************************************************)
(* ROC analysis: validation.py, roc_analysis.  sklearn's roc_curve and     *)
(* auc give the trapezoidal area under the ROC curve, which is the share   *)
(* of (positive, negative) pairs ranked correctly, a tie counting half.    *)
(* The curve points fpr, tpr and thresholds of the full record are left    *)
(* out: the pipeline strips them before assembling its result.             *)
(***************************************************************************)
\* len(np.unique(y)): number of distinct labels
NUnique(y) == Cardinality(Range(y))

\* auc(*roc_curve(y, scores)[:2]) for labels in {0, 1} with both present
Auc(y, scores) ==
    LET pos == {i \in 1..Len(y) : y[i] = 1}
        neg == {i \in 1..Len(y) : y[i] = 0}
        won == [pr \in pos \X neg |->
                  IF scores[pr[1]] > scores[pr[2]] THEN 2
                  ELSE IF scores[pr[1]] = scores[pr[2]] THEN 1 ELSE 0]
    IN  Norm(<<SumSet(pos \X neg, won),
               2 * Cardinality(pos) * Cardinality(neg)>>)

\* np.percentile(a, 100 * qn / qd): linear interpolation between the two
\* order statistics around position (len(a) - 1) * qn / qd
Percentile(a, qn, qd) ==
    LET v    == RSort(a)
        m    == Len(a)
        lo   == (qn * (m - 1)) \div qd
        fr   == (qn * (m - 1)) % qd
        hi   == IF lo + 2 <= m THEN lo + 2 ELSE m
        x    == v[lo + 1]
        y    == v[hi]
    IN  Norm(<<x[1] * y[2] * (qd - fr) + y[1] * x[2] * fr, x[2] * y[2] * qd>>)

\* a mutation of CiLower: the percentile 99.9 is taken for the lower bound
CiLowerHigh(scores) == Percentile(scores, 999, 1000)

\* np.percentile(auc_scores, 2.5)
CiLower(scores) == Percentile(scores, 1, 40)

\* np.percentile(auc_scores, 97.5)
CiUpper(scores) == Percentile(scores, 39, 40)

\* the interpretation buckets of the area
Interpretation(a) ==
    IF RLeq(<<9, 10>>, a) THEN "excellent"
    ELSE IF RLeq(<<8, 10>>, a) THEN "good"
    ELSE IF RLeq(<<7, 10>>, a) THEN "fair"
    ELSE "poor"

\* resample(range(n), replace=True): the index arrays that may be drawn.
\* The drawn indices are used only to index y_true and y_scores, whose
\* resampled arrays enter np.unique and roc_curve, both insensitive to the
\* order of the entities: one array per multiset of indices is enough.
Resamples(n) ==
    {ix \in [1..n -> 1..n] : \A i \in 1..(n - 1) : ix[i] <= ix[i + 1]}

\* a mutation of RocClean: no pair is removed
RocCleanKeepAll(a) == a

\* mask = ~(np.isnan(y_true) | np.isnan(y_scores)) and the cleaned arrays
RocClean(a) == Select(a, PairMask(roc_y_true, roc_y_scores), 1)

RocInit ==
    /\ \E n \in 1..MaxRoc :
          /\ roc_y_true \in [1..n -> {0, 1, NaN}]
          /\ roc_y_scores \in [1..n -> {0, 1, NaN}]
    /\ roc_n_bootstraps = MaxBootstraps
    /\ roc_pc = "start"
    /\ roc_iter = 0
    /\ auc_scores = <<>>
    /\ roc_result = NotCalled
    /\ OthersIdle("roc")

\* lines 245-260: cleaning and the single-class return
RocInsufficientClasses ==
    /\ roc_pc = "start"
    /\ NUnique(RocClean(roc_y_true)) < 2
    /\ roc_result' = Returned([auc |-> FNaN, ci_lower |-> FNaN,
                               ci_upper |-> FNaN,
                               interpretation |-> "insufficient classes"])
    /\ roc_pc' = "done"
    /\ UNCHANGED <<roc_y_true, roc_y_scores, roc_n_bootstraps, roc_iter,
                   auc_scores, notRoc>>

\* lines 262-266: the point estimate is computed, the bootstrap begins
RocBegin ==
    /\ roc_pc = "start"
    /\ NUnique(RocClean(roc_y_true)) >= 2
    /\ roc_pc' = "bootstrap"
    /\ UNCHANGED <<roc_y_true, roc_y_scores, roc_n_bootstraps, roc_iter,
                   auc_scores, roc_result, notRoc>>

\* lines 267-276: one bootstrap iteration, indices drawn with replacement
RocResample ==
    /\ roc_pc = "bootstrap"
    /\ roc_iter < roc_n_bootstraps
    /\ LET y == RocClean(roc_y_true)
           sc == RocClean(roc_y_scores)
       IN  \E indices \in Resamples(Len(y)) :
             LET y_true_boot   == [i \in 1..Len(y) |-> y[indices[i]]]
                 y_scores_boot == [i \in 1..Len(y) |-> sc[indices[i]]]
             IN  auc_scores' =
                    IF NUnique(y_true_boot) < 2 THEN auc_scores
                    ELSE Append(auc_scores, Auc(y_true_boot, y_scores_boot))
    /\ roc_iter' = roc_iter + 1
    /\ UNCHANGED <<roc_y_true, roc_y_scores, roc_n_bootstraps, roc_pc,
                   roc_result, notRoc>>

\* lines 278-304: the interval, the interpretation and the record
RocFinish ==
    /\ roc_pc = "bootstrap"
    /\ roc_iter = roc_n_bootstraps
    /\ LET roc_auc == Auc(RocClean(roc_y_true), RocClean(roc_y_scores))
       IN  roc_result' = Returned(
              [auc |-> roc_auc,
               ci_lower |-> IF Len(auc_scores) > 0
                            THEN CiLower(auc_scores) ELSE FNaN,
               ci_upper |-> IF Len(auc_scores) > 0
                            THEN CiUpper(auc_scores) ELSE FNaN,
               interpretation |-> Interpretation(roc_auc)])
    /\ roc_pc' = "done"
    /\ UNCHANGED <<roc_y_true, roc_y_scores, roc_n_bootstraps, roc_iter,
                   auc_scores, notRoc>>

RocNext == RocInsufficientClasses \/ RocBegin \/ RocResample \/ RocFinish

SpecRoc == RocInit /\ [][RocNext]_vars

(***************************************************************************)
(* C5.  Whenever fewer than 2 valid resample statistics survive a          *)
(* bootstrap the interval is unavailable: roc_analysis reports ci_lower    *)
(* and ci_upper undefined when zero or exactly one resample retains both   *)
(* classes.                                                                *)
(***************************************************************************)
C5_FewResamplesNoInterval ==
    (roc_pc = "done" /\ Len(auc_scores) < 2) =>
        /\ IsFNaN(roc_result.value.ci_lower)
        /\ IsFNaN(roc_result.value.ci_upper)

(***************************************************************************)
(* The two interval-producing operations together.                         *)
(***************************************************************************)
SpecInterval == (SpInit \/ RocInit) /\ [][SpNext \/ RocNext]_vars

\* a bound that is neither None nor NaN
Available(q) == ~IsNone(q) /\ ~IsFNaN(q)

(***************************************************************************)
(* C6.  As claimed: in every result of spearman_with_ci and roc_analysis   *)
(* with both bounds available, ci_lower <= point estimate <= ci_upper.     *)
(***************************************************************************)
C6_PointInsideInterval ==
    /\ (roc_pc = "done" /\ Available(roc_result.value.ci_lower)
                        /\ Available(roc_result.value.ci_upper)) =>
          /\ RLeq(roc_result.value.ci_lower, roc_result.value.auc)
          /\ RLeq(roc_result.value.auc, roc_result.value.ci_upper)
    /\ (sp_result /= NotCalled /\ Available(sp_result.value.ci_lower)
                               /\ Available(sp_result.value.ci_upper)) =>
          /\ RLeq(sp_result.value.ci_lower, sp_result.value.rho)
          /\ RLeq(sp_result.value.rho, sp_result.value.ci_upper)

(***************************************************************************)
(* C6, amended.  In every result of spearman_with_ci and roc_analysis with *)
(* both bounds available, ci_lower <= ci_upper, and the bounds of          *)
(* roc_analysis lie in [0, 1]; the point estimate may lie outside.         *)
(***************************************************************************)
C6_IntervalOrdered ==
    /\ (roc_pc = "done" /\ Available(roc_result.value.ci_lower)
                        /\ Available(roc_result.value.ci_upper)) =>
          /\ RLeq(roc_result.value.ci_lower, roc_result.value.ci_upper)
          /\ RLeq(<<0, 1>>, roc_result.value.ci_lower)
          /\ RLeq(roc_result.value.ci_upper, <<1, 1>>)
    /\ (sp_result /= NotCalled /\ Available(sp_result.value.ci_lower)
                               /\ Available(sp_result.value.ci_upper)) =>
          RLeq(sp_result.value.ci_lower, sp_result.value.ci_upper)

\* roc_analysis finished with two surviving resamples of different area,
\* and the area of the full sample lies below the whole interval
C6_Witness ==
    /\ roc_pc = "done"
    /\ Len(auc_scores) = 2
    /\ Available(roc_result.value.ci_lower)
    /\ RLess(roc_result.value.ci_lower, roc_result.value.ci_upper)
    /\ RLess(roc_result.value.auc, roc_result.value.ci_lower)

(***************************************************************************)
(* Confusion matrix: validation.py, confusion_matrix_analysis.  sklearn's  *)
(* confusion_matrix(y_true, y_pred), called without labels=, has one row   *)
(* and one column per label that occurs in y_true or y_pred, in sorted     *)
(* order; cm.ravel() lists its cells row by row.                           *)
(***************************************************************************)
\* the sorted labels occurring in either array
CmLabels(y_true, y_pred) ==
    LET L == Range(y_true) \cup Range(y_pred)
    IN  IF L = {} THEN <<>>
        ELSE IF Cardinality(L) = 1 THEN <<CHOOSE l \in L : TRUE>>
        ELSE <<0, 1>>

\* confusion_matrix(y_true, y_pred).ravel()
CmRavel(y_true, y_pred) ==
    LET labels == CmLabels(y_true, y_pred)
        k      == Len(labels)
    IN  [c \in 1..(k * k) |->
            Cardinality({i \in 1..Len(y_true) :
                /\ y_true[i] = labels[((c - 1) \div k) + 1]
                /\ y_pred[i] = labels[((c - 1) % k) + 1]})]

\* num / den if den > 0 else np.nan
Ratio(num, den) == IF den > 0 THEN Norm(<<num, den>>) ELSE FNaN

\* a mutation of F1: the arithmetic mean instead of the harmonic mean
F1_mean(precision, sensitivity) ==
    IF IsFNaN(precision) \/ IsFNaN(sensitivity) THEN FNaN
    ELSE LET a == precision[1]
             b == precision[2]
             c == sensitivity[1]
             d == sensitivity[2]
         IN  IF a * d + c * b > 0 THEN Norm(<<a * d + c * b, 2 * b * d>>)
             ELSE FNaN

\* 2 * (precision * sensitivity) / (precision + sensitivity)
\*     if (precision + sensitivity) > 0 else np.nan
F1(precision, sensitivity) ==
    IF IsFNaN(precision) \/ IsFNaN(sensitivity) THEN FNaN
    ELSE LET a == precision[1]
             b == precision[2]
             c == sensitivity[1]
             d == sensitivity[2]
         IN  IF a * d + c * b > 0 THEN Norm(<<2 * a * c, a * d + c * b>>)
             ELSE FNaN

\* float(v) if not np.isnan(v) else None
NoneIfNaN(v) == IF IsFNaN(v) THEN None ELSE v

\* confusion_matrix_analysis(y_true, y_pred): the unpacking
\* "tn, fp, fn, tp = cm.ravel()" raises unless the matrix has 4 cells
confusion_matrix_analysis(y_true, y_pred) ==
    LET cells == CmRavel(y_true, y_pred)
    IN  IF Len(cells) /= 4 THEN Raised
        ELSE LET tn == cells[1]
                 fp == cells[2]
                 fn == cells[3]
                 tp == cells[4]
                 sensitivity == Ratio(tp, tp + fn)
                 specificity == Ratio(tn, tn + fp)
                 precision   == Ratio(tp, tp + fp)
                 f1          == F1(precision, sensitivity)
             IN  Returned([true_positives |-> tp,
                           true_negatives |-> tn,
                           false_positives |-> fp,
                           false_negatives |-> fn,
                           sensitivity |-> NoneIfNaN(sensitivity),
                           specificity |-> NoneIfNaN(specificity),
                           precision |-> NoneIfNaN(precision),
                           f1_score |-> NoneIfNaN(f1)])

CmInit ==
    /\ \E n \in 1..MaxCm :
          /\ cm_y_true \in [1..n -> {0, 1}]
          /\ cm_y_pred \in [1..n -> {0, 1}]
    /\ cm_result = NotCalled
    /\ OthersIdle("cm")

ConfusionMatrixAnalysis ==
    /\ cm_result = NotCalled
    /\ cm_result' = confusion_matrix_analysis(cm_y_true, cm_y_pred)
    /\ UNCHANGED <<cm_y_true, cm_y_pred, notCm>>

CmNext == ConfusionMatrixAnalysis

SpecCm == CmInit /\ [][CmNext]_vars

(***************************************************************************)
(* C3.  confusion_matrix_analysis returns a record for every pair of       *)
(* equal-length binary arrays, all labels and predictions in one class     *)
(* included: TP, TN, FP and FN are reported and sum to the number of       *)
(* entities, a metric with a zero denominator is undefined, and the call   *)
(* never aborts.                                                           *)
(***************************************************************************)
CountWhere(y_true, y_pred, t, q) ==
    Cardinality({i \in 1..Len(y_true) : y_true[i] = t /\ y_pred[i] = q})

C3_AlwaysReturnsCounts ==
    cm_result /= NotCalled =>
        /\ cm_result.kind = "returned"
        /\ cm_result.value.true_positives + cm_result.value.true_negatives
              + cm_result.value.false_positives
              + cm_result.value.false_negatives = Len(cm_y_true)
        /\ (CountWhere(cm_y_true, cm_y_pred, 1, 1)
               + CountWhere(cm_y_true, cm_y_pred, 1, 0) = 0)
              => IsNone(cm_result.value.sensitivity)
        /\ (CountWhere(cm_y_true, cm_y_pred, 0, 0)
               + CountWhere(cm_y_true, cm_y_pred, 0, 1) = 0)
              => IsNone(cm_result.value.specificity)
        /\ (CountWhere(cm_y_true, cm_y_pred, 1, 1)
               + CountWhere(cm_y_true, cm_y_pred, 0, 1) = 0)
              => IsNone(cm_result.value.precision)

(***************************************************************************)
(* Paired comparison: validation.py, compare_models.  scipy's              *)
(* binomtest(k, n, 0.5, alternative='two-sided') sums the probabilities of *)
(* the outcomes that are no more probable than k; with p = 0.5 every       *)
(* outcome i has probability C(n, i) / 2^n.                                *)
(***************************************************************************)
RECURSIVE Binomial(_, _)
\* C(n, k)
Binomial(n, k) ==
    IF k = 0 \/ k = n THEN 1
    ELSE Binomial(n - 1, k - 1) + Binomial(n - 1, k)

RECURSIVE Pow2(_)
Pow2(n) == IF n = 0 THEN 1 ELSE 2 * Pow2(n - 1)

\* a mutation of binomtest: the one-sided test alternative='greater'
binomtest_greater(k, n) ==
    Norm(<<SumSet(k..n, [i \in 0..n |-> Binomial(n, i)]), Pow2(n)>>)

\* binomtest(k, n, 0.5, alternative='two-sided').pvalue
binomtest(k, n) ==
    LET pmf == [i \in 0..n |-> Binomial(n, i)]
    IN  Norm(<<SumSet({i \in 0..n : pmf[i] <= pmf[k]}, pmf), Pow2(n)>>)

\* int(sum(cond)) over the entities
CountTrue(cond) == SumSeq([i \in DOMAIN cond |-> IF cond[i] THEN 1 ELSE 0])

\* a mutation of DiscordantB: the two classifiers exchanged
DiscordantBSwapped(y_true, pred_v1, pred_v2) ==
    CountTrue([i \in 1..Len(y_true) |->
                  pred_v1[i] = y_true[i] /\ pred_v2[i] /= y_true[i]])

\* b = int(sum((pred_v1 != y_true) & (pred_v2 == y_true)))
DiscordantB(y_true, pred_v1, pred_v2) ==
    CountTrue([i \in 1..Len(y_true) |->
                  pred_v1[i] /= y_true[i] /\ pred_v2[i] = y_true[i]])

\* c = int(sum((pred_v1 == y_true) & (pred_v2 != y_true)))
DiscordantC(y_true, pred_v1, pred_v2) ==
    CountTrue([i \in 1..Len(y_true) |->
                  pred_v1[i] = y_true[i] /\ pred_v2[i] /= y_true[i]])

\* compare_models(y_true, pred_v1, pred_v2) for non-empty arrays
compare_models(y_true, pred_v1, pred_v2) ==
    LET b == DiscordantB(y_true, pred_v1, pred_v2)
        c == DiscordantC(y_true, pred_v1, pred_v2)
        p_value == IF b + c > 0 THEN binomtest(b, b + c) ELSE <<1, 1>>
        v1_correct == CountTrue([i \in 1..Len(y_true) |->
                                    pred_v1[i] = y_true[i]])
        v2_correct == CountTrue([i \in 1..Len(y_true) |->
                                    pred_v2[i] = y_true[i]])
    IN  [v1_accuracy |-> Norm(<<v1_correct, Len(y_true)>>),
         v2_accuracy |-> Norm(<<v2_correct, Len(y_true)>>),
         v1_correct |-> v1_correct,
         v2_correct |-> v2_correct,
         total |-> Len(y_true),
         v1_wrong_v2_right |-> b,
         v1_right_v2_wrong |-> c,
         mcnemar_p_value |-> p_value,
         significant_difference |-> RLess(p_value, <<5, 100>>)]

\* the kinds of entity: <<y_true, pred_v1, pred_v2>>
EntityKinds == <<
    <<0, 0, 0>>, <<0, 0, 1>>, <<0, 1, 0>>, <<0, 1, 1>>,
    <<1, 0, 0>>, <<1, 0, 1>>, <<1, 1, 0>>, <<1, 1, 1>> >>

RECURSIVE Blocks(_, _)
\* counts[k] entities of kind k, kind after kind, from kind k on
Blocks(counts, k) ==
    IF k > Len(counts) THEN <<>>
    ELSE [i \in 1..counts[k] |-> EntityKinds[k]] \o Blocks(counts, k + 1)

\* compare_models reads its three arrays entity by entity and only counts,
\* so the order of the entities is immaterial: the arrays are enumerated
\* up to permutation, by the number of entities of each kind.
CmpArraysFrom(shortest) ==
       \E n1 \in 0..MaxCompare : \E n2 \in 0..(MaxCompare - n1) :
         \E n3 \in 0..(MaxCompare - n1 - n2) :
         \E n4 \in 0..(MaxCompare - n1 - n2 - n3) :
         \E n5 \in 0..(MaxCompare - n1 - n2 - n3 - n4) :
         \E n6 \in 0..(MaxCompare - n1 - n2 - n3 - n4 - n5) :
         \E n7 \in 0..(MaxCompare - n1 - n2 - n3 - n4 - n5 - n6) :
         \E n8 \in 0..(MaxCompare - n1 - n2 - n3 - n4 - n5 - n6 - n7) :
            LET e == Blocks(<<n1, n2, n3, n4, n5, n6, n7, n8>>, 1)
            IN  /\ Len(e) >= shortest
                /\ cmp_y_true = [i \in 1..Len(e) |-> e[i][1]]
                /\ cmp_pred_v1 = [i \in 1..Len(e) |-> e[i][2]]
                /\ cmp_pred_v2 = [i \in 1..Len(e) |-> e[i][3]]

CmpInit ==
    /\ CmpArraysFrom(1)
    /\ cmp_result = NotCalled
    /\ OthersIdle("compare")

\* with no entity the counts b and c are 0 and the p-value is set to 1.0,
\* then sum(pred_v1 == y_true) / len(y_true) of line 342 divides the
\* integer 0 by 0 and raises ZeroDivisionError
CompareModels ==
    /\ cmp_result = NotCalled
    /\ cmp_result' = IF Len(cmp_y_true) = 0 THEN Raised
                      ELSE Returned(compare_models(cmp_y_true, cmp_pred_v1,
                                                   cmp_pred_v2))
    /\ UNCHANGED <<cmp_y_true, cmp_pred_v1, cmp_pred_v2, notCmp>>

CmpNext == CompareModels

SpecCompare == CmpInit /\ [][CmpNext]_vars

(***************************************************************************)
(* C9.  compare_models reports p = 1 and no significant difference when    *)
(* b + c = 0; otherwise its p-value is the exact two-sided binomial        *)
(* probability of b successes in b + c trials at probability 0.5, that is  *)
(* twice the probability of at most min(b, c) successes, capped at 1; the  *)
(* difference is significant exactly when p < 0.05, so it is for b = 10,   *)
(* c = 0.                                                                  *)
(***************************************************************************)
TwoSidedP(b, c) ==
    LET n == b + c
        m == IF b < c THEN b ELSE c
        twice == 2 * SumSet(0..m, [i \in 0..n |-> Binomial(n, i)])
    IN  IF twice >= Pow2(n) THEN <<1, 1>> ELSE Norm(<<twice, Pow2(n)>>)

EntitiesWhere(v1_right, v2_right) ==
    {i \in 1..Len(cmp_y_true) :
        /\ (cmp_pred_v1[i] = cmp_y_true[i]) = v1_right
        /\ (cmp_pred_v2[i] = cmp_y_true[i]) = v2_right}

C10_DiscordantCounts ==
    cmp_result /= NotCalled =>
        LET r == cmp_result.value
        IN  /\ r.v1_wrong_v2_right = Cardinality(EntitiesWhere(FALSE, TRUE))
            /\ r.v1_right_v2_wrong = Cardinality(EntitiesWhere(TRUE, FALSE))
            /\ r.v1_wrong_v2_right + r.v1_right_v2_wrong
                  = r.total - Cardinality(EntitiesWhere(TRUE, TRUE))
                            - Cardinality(EntitiesWhere(FALSE, FALSE))

\* all four kinds of entity occur and b differs from c
C10_Witness ==
    /\ cmp_result.kind = "returned"
    /\ cmp_result.value.v1_wrong_v2_right = 2
    /\ cmp_result.value.v1_right_v2_wrong = 1
    /\ EntitiesWhere(TRUE, TRUE) /= {}
    /\ EntitiesWhere(FALSE, FALSE) /= {}

(***************************************************************************)
(* Leave-one-out cross-validation: validation.py, loocv_accuracy.          *)
(* LeaveOneOut().split(X) yields one split per row, in row order, the row  *)
(* as test set and all other rows as training set; given fewer than two    *)
(* rows it raises ValueError, which loocv_accuracy does not catch.  The    *)
(* Wilson bounds of proportion_confint are carried in thousandths, rounded *)
(* down.                                                                   *)
(***************************************************************************)
RECURSIVE IsqrtIn(_, _, _)
\* the integer square root of x, searched in lo..hi
IsqrtIn(x, lo, hi) ==
    IF lo >= hi THEN lo
    ELSE LET mid == (lo + hi + 1) \div 2
         IN  IF mid * mid <= x THEN IsqrtIn(x, mid, hi)
             ELSE IsqrtIn(x, lo, mid - 1)

Isqrt(x) == IsqrtIn(x, 0, 46340)

\* a mutation: the distance of the normal approximation, without z^2/(4 n^2)
WilsonDistNormal(count, nobs) ==
    Isqrt((3841459 * count * (nobs - count)) \div nobs)

\* 1000 * z * sqrt(q(1-q)/n + z^2/(4 n^2)) * n for z = 1.959964
WilsonDist(count, nobs) ==
    Isqrt((3841459 * count * (nobs - count)) \div nobs + 3689202)

\* proportion_confint(count, nobs, method='wilson')[0]
WilsonLow(count, nobs) ==
    Norm(<<((1000 * count + 1921 - WilsonDist(count, nobs)) * 1000)
              \div (1000 * nobs + 3841), 1000>>)

\* proportion_confint(count, nobs, method='wilson')[1]
WilsonUpp(count, nobs) ==
    Norm(<<((1000 * count + 1921 + WilsonDist(count, nobs)) * 1000)
              \div (1000 * nobs + 3841), 1000>>)

\* lines 184-188: the prediction recorded for a fold
FoldPrediction(outcome) ==
    IF outcome = "raise" THEN NaN
    ELSE IF outcome = "p1" THEN 1 ELSE 0

\* lines 192-224: the record computed from the recorded folds
LoocvRecord(predictions_all, actuals_all) ==
    LET valid_mask  == [i \in 1..Len(predictions_all) |->
                           ~isnan(predictions_all[i])]
        predictions == Select(predictions_all, valid_mask, 1)
        actuals     == Select(actuals_all, valid_mask, 1)
        correct     == CountTrue([i \in 1..Len(predictions) |->
                                     predictions[i] = actuals[i]])
    IN  IF Len(predictions) = 0
        THEN [accuracy |-> FNaN, correct |-> 0, total |-> 0,
              ci_lower |-> FNaN, ci_upper |-> FNaN,
              predictions |-> <<>>, actuals |-> <<>>]
        ELSE [accuracy |-> Norm(<<correct, Len(actuals)>>),
              correct |-> correct,
              total |-> Len(actuals),
              ci_lower |-> WilsonLow(correct, Len(actuals)),
              ci_upper |-> WilsonUpp(correct, Len(actuals)),
              predictions |-> predictions,
              actuals |-> actuals]

RECURSIVE LoocvFolds(_, _)
\* the predictions recorded by the loop of lines 177-190, from fold k on
LoocvFolds(outcomes, k) ==
    IF k > Len(outcomes) THEN <<>>
    ELSE <<FoldPrediction(outcomes[k])>> \o LoocvFolds(outcomes, k + 1)

\* loocv_accuracy(X, y, model_func), model_func behaving as outcomes says
loocv_accuracy(y, outcomes) ==
    IF Len(y) <= 1 THEN Raised
    ELSE Returned(LoocvRecord(LoocvFolds(outcomes, 1), y))

LooInit ==
    /\ \E n \in 1..MaxLoo :
          /\ loo_y \in [1..n -> {0, 1}]
          /\ loo_model \in [1..n -> {"p0", "p1", "raise"}]
    /\ loo_fold = 0
    /\ loo_calls = <<>>
    /\ loo_predictions = <<>>
    /\ loo_actuals = <<>>
    /\ loo_result = NotCalled
    /\ OthersIdle("loocv")

\* line 177: LeaveOneOut().split(X) rejects a table of fewer than two rows
LoocvSplitRaises ==
    /\ loo_result = NotCalled
    /\ Len(loo_y) <= 1
    /\ loo_result' = Raised
    /\ UNCHANGED <<loo_y, loo_model, loo_fold, loo_calls, loo_predictions,
                   loo_actuals, notLoo>>

\* lines 177-190: one fold
LoocvFold ==
    /\ loo_result = NotCalled
    /\ Len(loo_y) >= 2
    /\ loo_fold < Len(loo_y)
    /\ LET test_idx  == loo_fold + 1
           train_idx == (1..Len(loo_y)) \ {test_idx}
       IN  /\ loo_calls' = Append(loo_calls,
                                  [X_test |-> {test_idx}, X_train |-> train_idx])
           /\ loo_predictions' = Append(loo_predictions,
                                        FoldPrediction(loo_model[test_idx]))
           /\ loo_actuals' = Append(loo_actuals, loo_y[test_idx])
    /\ loo_fold' = loo_fold + 1
    /\ UNCHANGED <<loo_y, loo_model, loo_result, notLoo>>

\* lines 192-224: the record
LoocvFinish ==
    /\ loo_result = NotCalled
    /\ Len(loo_y) >= 2
    /\ loo_fold = Len(loo_y)
    /\ loo_result' = Returned(LoocvRecord(loo_predictions, loo_actuals))
    /\ UNCHANGED <<loo_y, loo_model, loo_fold, loo_calls, loo_predictions,
                   loo_actuals, notLoo>>

LooNext == LoocvSplitRaises \/ LoocvFold \/ LoocvFinish

SpecLoocv == LooInit /\ [][LooNext]_vars

(***************************************************************************)
(* C8.  loocv_accuracy holds out each of the n entities exactly once and   *)
(* calls the scoring function with that entity as test input and the other *)
(* n - 1 as training input; an entity whose prediction raises is excluded: *)
(* total is the number of entities whose prediction succeeded, correct <=  *)
(* total, accuracy = correct / total, and when no prediction succeeds the  *)
(* accuracy is undefined with correct = 0 and total = 0.                   *)
(***************************************************************************)
Succeeded == {i \in 1..Len(loo_y) : loo_model[i] /= "raise"}

Hits == {i \in Succeeded : (loo_model[i] = "p1") = (loo_y[i] = 1)}

C8_LoocvHoldsOutEachOnce ==
    loo_result /= NotCalled =>
        LET r == loo_result.value
            n == Len(loo_y)
        IN  /\ loo_result.kind = "returned"
            /\ Len(loo_calls) = n
            /\ \A i \in 1..n :
                  Cardinality({k \in 1..n : loo_calls[k].X_test = {i}}) = 1
            /\ \A k \in 1..n :
                  /\ Cardinality(loo_calls[k].X_test) = 1
                  /\ loo_calls[k].X_train = (1..n) \ loo_calls[k].X_test
            /\ r.total = Cardinality(Succeeded)
            /\ r.correct = Cardinality(Hits)
            /\ r.correct <= r.total
            /\ r.total > 0 => r.accuracy = Norm(<<r.correct, r.total>>)
            /\ Succeeded = {} =>
                  IsFNaN(r.accuracy) /\ r.correct = 0 /\ r.total = 0

\* the same for tables of at least two entities
C8_HoldsFromTwoEntities ==
    Len(loo_y) >= 2 => C8_LoocvHoldsOutEachOnce

\* a single entity: the call raises before any fold
C8_SingleEntityRaises ==
    /\ Len(loo_y) = 1
    /\ loo_result = Raised
    /\ loo_calls = <<>>

\* three entities, the prediction raising for one, right for one and wrong
\* for one
C8_Witness ==
    /\ loo_result.kind = "returned"
    /\ Len(loo_y) = 3
    /\ Cardinality(Succeeded) = 2
    /\ loo_result.value.total = 2
    /\ loo_result.value.correct = 1

(***************************************************************************)
(* Tables: the data frame operations the pipeline uses.                    *)
(***************************************************************************)
\* df[c].values
Column(d, c) == [i \in 1..Len(d.rows) |-> d.rows[i][c]]

\* df[c] = vals
WithColumn(d, c, vals) ==
    [columns |-> d.columns \cup {c},
     rows |-> [i \in 1..Len(d.rows) |->
                 [k \in d.columns \cup {c} |->
                     IF k = c THEN vals[i] ELSE d.rows[i][k]]]]

\* the table with every row kept, whatever the mask
FilterRowsKeepAll(d, mask) == d

\* df[mask]
FilterRows(d, mask) ==
    [columns |-> d.columns, rows |-> Select(d.rows, mask, 1)]

\* df.drop(columns=cs, errors='ignore')
DropColumns(d, cs) ==
    [columns |-> d.columns \ cs,
     rows |-> [i \in 1..Len(d.rows) |->
                 [k \in d.columns \ cs |-> d.rows[i][k]]]]

\* v >= t, not what the factor rules use
GtOrEqual(v, t) == ~isnan(v) /\ v >= t

\* a comparison with a missing cell is False
Gt(v, t) == ~isnan(v) /\ v > t
Lt(v, t) == ~isnan(v) /\ v < t
Eq(v, t) == ~isnan(v) /\ v = t

\* v <op> t for the operator named op
Compare(op, v, t) ==
    CASE op = ">" -> Gt(v, t)
      [] op = "<" -> Lt(v, t)
      [] op = "==" -> Eq(v, t)

\* df[name] = df[src] <op> t
Derive(d, name, src, op, t) ==
    WithColumn(d, name, [i \in 1..Len(d.rows) |->
                            IF Compare(op, d.rows[i][src], t) THEN 1 ELSE 0])

(***************************************************************************)
(* validation.py, apply_factor_thresholds.                                 *)
(***************************************************************************)
apply_factor_thresholds(d) ==
    LET f1  == IF "open_cases" \in d.columns
               THEN Derive(d, "factor_backlog_gt10", "open_cases", ">", 10)
               ELSE IF "sla_open_cases" \in d.columns
               THEN Derive(d, "factor_backlog_gt10", "sla_open_cases", ">", 10)
               ELSE d
        f3  == IF "avg_resolution_hours" \in f1.columns
               THEN Derive(f1, "factor_resolution_gt700h",
                           "avg_resolution_hours", ">", 700)
               ELSE f1
        f9  == IF "seg_events_12m" \in f3.columns
               THEN Derive(f3, "factor_strategic_ops_lt2",
                           "seg_events_12m", "<", 2)
               ELSE f3
        f12 == IF "total_engagement" \in f9.columns
               THEN Derive(f9, "factor_no_event_attendance",
                           "total_engagement", "==", 0)
               ELSE IF "seg_events_12m" \in f9.columns
               THEN Derive(f9, "factor_no_event_attendance",
                           "seg_events_12m", "==", 0)
               ELSE f9
        f7  == IF "nps_response_count" \in f12.columns
               THEN Derive(f12, "factor_nps_no_response",
                           "nps_response_count", "==", 0)
               ELSE f12
    IN  f7

(***************************************************************************)
(* statistics.py, minimum_detectable_effect.  solve_power is a library     *)
(* call: it leaves a positive effect size, or NaN when it raises.          *)
(***************************************************************************)
SolvePowerOutcomes == {FNaN, <<2, 1>>}

minimum_detectable_effect(n, effect_size) ==
    IF n < 2
    THEN [n |-> n, alpha |-> <<1, 20>>, power |-> <<4, 5>>,
          min_detectable_d |-> FNaN,
          interpretation |-> "Insufficient sample size"]
    ELSE [n |-> n, alpha |-> <<1, 20>>, power |-> <<4, 5>>,
          min_detectable_d |-> NoneIfNaN(effect_size),
          interpretation |-> IF IsFNaN(effect_size) THEN "Unable to compute"
                             ELSE "can detect"]

(***************************************************************************)
(* statistics.py, cohens_d and calculate_nps_delta; validation.py,         *)
(* threshold_sensitivity.  Cohen's d is a quotient by a square root: it is *)
(* carried as d * |d|, which has the sign of d and is 0, undefined or      *)
(* below a bound exactly when d is.                                        *)
(***************************************************************************)
RSub(p, q) ==
    IF IsFNaN(p) \/ IsFNaN(q) THEN FNaN
    ELSE Norm(<<p[1] * q[2] - q[1] * p[2], p[2] * q[2]>>)

RAbs(q) == <<IF q[1] < 0 THEN -q[1] ELSE q[1], q[2]>>

\* np.mean of a non-empty array
Mean(a) == Norm(<<SumSeq(a), Len(a)>>)

\* len(a) * (len(a) - 1) * np.var(a, ddof=1)
VarNum(a) ==
    Len(a) * SumSeq([i \in 1..Len(a) |-> a[i] * a[i]]) - SumSeq(a) * SumSeq(a)

\* the buckets taken on d itself, without abs()
MagnitudeSigned(dd) ==
    IF RLess(dd, <<4, 100>>) THEN "negligible"
    ELSE IF RLess(dd, <<25, 100>>) THEN "small"
    ELSE IF RLess(dd, <<64, 100>>) THEN "medium"
    ELSE "large"

\* the magnitude buckets, on d * |d|
Magnitude(dd) ==
    LET abs_dd == RAbs(dd)
    IN  IF RLess(abs_dd, <<4, 100>>) THEN "negligible"
        ELSE IF RLess(abs_dd, <<25, 100>>) THEN "small"
        ELSE IF RLess(abs_dd, <<64, 100>>) THEN "medium"
        ELSE "large"

\* both groups short, where the code asks for either
TooFewInBoth(n1, n2) == n1 < 2 /\ n2 < 2

\* line 106
TooFew(n1, n2) == n1 < 2 \/ n2 < 2

cohens_d(group1, group2) ==
    LET g1 == Select(group1, [i \in 1..Len(group1) |-> ~isnan(group1[i])], 1)
        g2 == Select(group2, [i \in 1..Len(group2) |-> ~isnan(group2[i])], 1)
        n1 == Len(g1)
        n2 == Len(g2)
        \* n1 * n2 * (n1 + n2 - 2) * pooled_std ** 2
        pooled == VarNum(g1) * n2 + VarNum(g2) * n1
        \* n1 * n2 * (mean(g1) - mean(g2))
        diff == SumSeq(g1) * n2 - SumSeq(g2) * n1
    IN  IF TooFew(n1, n2)
        THEN [d |-> FNaN, magnitude |-> "insufficient data"]
        ELSE IF pooled = 0
        THEN [d |-> FNaN, magnitude |-> "zero variance"]
        ELSE LET dd == Norm(<<(IF diff < 0 THEN -1 ELSE 1) * diff * diff
                                  * (n1 + n2 - 2),
                              n1 * n2 * pooled>>)
             IN  [d |-> dd, magnitude |-> Magnitude(dd),
                  n1 |-> n1, n2 |-> n2,
                  mean1 |-> Mean(g1), mean2 |-> Mean(g2)]

calculate_nps_delta(metric_values, nps_values, threshold) ==
    LET mask      == PairMask(metric_values, nps_values)
        metric    == Select(metric_values, mask, 1)
        nps       == Select(nps_values, mask, 1)
        above_nps == Select(nps, [i \in 1..Len(nps) |-> metric[i] > threshold], 1)
        below_nps == Select(nps, [i \in 1..Len(nps) |-> metric[i] <= threshold], 1)
        effect    == cohens_d(above_nps, below_nps)
    IN  IF Len(above_nps) = 0 \/ Len(below_nps) = 0
        THEN [threshold |-> threshold,
              n_above |-> Len(above_nps),
              n_below |-> Len(below_nps),
              nps_above |-> FNaN,
              nps_below |-> FNaN,
              nps_delta |-> FNaN,
              cohens_d |-> FNaN,
              effect_magnitude |-> "insufficient data"]
        ELSE [threshold |-> threshold,
              n_above |-> Len(above_nps),
              n_below |-> Len(below_nps),
              nps_above |-> Mean(above_nps),
              nps_below |-> Mean(below_nps),
              nps_delta |-> RSub(Mean(above_nps), Mean(below_nps)),
              cohens_d |-> effect.d,
              effect_magnitude |-> effect.magnitude]

\* the data frame of one calculate_nps_delta record per threshold (the
\* column 'metric' holds the same name in every row)
threshold_sensitivity(metric_values, nps_values, thresholds) ==
    [k \in 1..Len(thresholds) |->
        calculate_nps_delta(metric_values, nps_values, thresholds[k])]

\* a mutation of AbsIdxmax: the last largest value is taken
AbsIdxmaxLast(a) ==
    IF \A k \in 1..Len(a) : IsFNaN(a[k]) THEN NaN
    ELSE CHOOSE k \in 1..Len(a) :
            /\ ~IsFNaN(a[k])
            /\ \A j \in 1..Len(a) :
                  IsFNaN(a[j]) \/ RLeq(RAbs(a[j]), RAbs(a[k]))
            /\ \A j \in (k + 1)..Len(a) :
                  IsFNaN(a[j]) \/ RLess(RAbs(a[j]), RAbs(a[k]))

\* Series.abs().idxmax(): the label of the first largest value, missing
\* values skipped; NaN when every value is missing
AbsIdxmax(a) ==
    IF \A k \in 1..Len(a) : IsFNaN(a[k]) THEN NaN
    ELSE CHOOSE k \in 1..Len(a) :
            /\ ~IsFNaN(a[k])
            /\ \A j \in 1..Len(a) :
                  IsFNaN(a[j]) \/ RLeq(RAbs(a[j]), RAbs(a[k]))
            /\ \A j \in 1..(k - 1) :
                  IsFNaN(a[j]) \/ RLess(RAbs(a[j]), RAbs(a[k]))

(***************************************************************************)
(* validation.py, roc_analysis, as a function of the index arrays that     *)
(* resample() draws in its bootstrap loop.                                 *)
(***************************************************************************)
RECURSIVE RocBootScores(_, _, _, _)
\* lines 266-276: auc_scores after the iterations from the k-th on
RocBootScores(y, sc, boots, k) ==
    IF k > Len(boots) THEN <<>>
    ELSE LET y_true_boot   == [i \in 1..Len(y) |-> y[boots[k][i]]]
             y_scores_boot == [i \in 1..Len(y) |-> sc[boots[k][i]]]
         IN  (IF NUnique(y_true_boot) < 2 THEN <<>>
              ELSE <<Auc(y_true_boot, y_scores_boot)>>)
                 \o RocBootScores(y, sc, boots, k + 1)

roc_analysis(y_true, y_scores, boots) ==
    LET mask    == PairMask(y_true, y_scores)
        y       == Select(y_true, mask, 1)
        sc      == Select(y_scores, mask, 1)
        scores  == RocBootScores(y, sc, boots, 1)
    IN  IF NUnique(y) < 2
        THEN [auc |-> FNaN, ci_lower |-> FNaN, ci_upper |-> FNaN,
              interpretation |-> "insufficient classes"]
        ELSE [auc |-> Auc(y, sc),
              ci_lower |-> IF Len(scores) > 0 THEN CiLower(scores) ELSE FNaN,
              ci_upper |-> IF Len(scores) > 0 THEN CiUpper(scores) ELSE FNaN,
              interpretation |-> Interpretation(Auc(y, sc))]

(***************************************************************************)
(* reporting.py, generate_json_output.  json.dump writes None as null and  *)
(* a float by its repr, which for the float NaN is the token NaN; numpy's  *)
(* float64 is a float, so NumpyEncoder.default, which json calls only for  *)
(* objects it cannot write itself, never sees a float.  The file is        *)
(* modelled as the token written under each key that holds a float or      *)
(* None.                                                                   *)
(***************************************************************************)
\* a dictionary with no keys
EmptyDict == [kind |-> "empty dict"]

\* the token json.dump writes for a float or None
JsonToken(v) ==
    IF IsNone(v) THEN "null"
    ELSE IF IsFNaN(v) THEN "NaN"
    ELSE "number"

\* the keys of each result record that hold a float or None
FloatKeys ==
    [power_analysis |-> {"alpha", "power", "min_detectable_d"},
     correlations |-> {"rho", "p_value", "ci_lower", "ci_upper"},
     loocv |-> {"accuracy", "ci_lower", "ci_upper"},
     roc_v1 |-> {"auc", "ci_lower", "ci_upper"},
     roc_v2 |-> {"auc", "ci_lower", "ci_upper"},
     model_comparison |-> {"v1_accuracy", "v2_accuracy", "mcnemar_p_value"},
     confusion_matrix |-> {"sensitivity", "specificity", "precision",
                           "f1_score"},
     threshold_sensitivity |-> {"nps_above", "nps_below", "nps_delta",
                                "cohens_d"}]

\* the position of a row in a JSON array, as a key
RowKey == <<"0", "1", "2", "3", "4", "5", "6", "7", "8", "9">>

\* the float-or-None values of a dictionary, each with its path of keys
DictLeaves(path, dict, keys) ==
    IF dict = EmptyDict THEN {}
    ELSE {[path |-> path \o <<k>>, value |-> dict[k]] : k \in keys}

\* the float-or-None values of the assembled record
JsonLeaves(data) ==
    LET flat == {"power_analysis", "loocv", "roc_v1", "roc_v2",
                 "model_comparison", "confusion_matrix"}
        rows == IF data.threshold_sensitivity = EmptyDict THEN <<>>
                ELSE data.threshold_sensitivity.resolution_time
    IN  UNION {DictLeaves(<<key>>, data[key], FloatKeys[key]) : key \in flat}
        \cup UNION {DictLeaves(<<"correlations", name>>,
                               data.correlations[name],
                               FloatKeys.correlations) :
                       name \in DOMAIN data.correlations}
        \cup UNION {DictLeaves(<<"threshold_sensitivity", "resolution_time",
                                 RowKey[k]>>, rows[k],
                               FloatKeys.threshold_sensitivity) :
                       k \in 1..Len(rows)}

generate_json_output(data) ==
    {[path |-> l.path, token |-> JsonToken(l.value)] : l \in JsonLeaves(data)}

(***************************************************************************)
(* The pipeline: csi_statistical_analysis.py, main, from the metric table  *)
(* that build_client_metrics returns.  A client has an NPS score or none   *)
(* and an average resolution time or none; is_detractor and is_promoter    *)
(* are set with the NPS score.  The random draws of the two roc_analysis   *)
(* calls are limited to resamples that all repeat the sample and resamples *)
(* that all repeat its first entity, the library outcomes of               *)
(* spearman_with_ci to two coefficients and two intervals, and solve_power *)
(* to its success; the functions are explored over all their outcomes in   *)
(* their own specifications.                                               *)
(***************************************************************************)
NpsValues == {-50, 50, NaN}

ResolutionValues == {50, 750, NaN}

\* the row of build_client_metrics for one client
ClientRow(hasNps, hasRes, nps, res) ==
    [c \in (IF hasNps THEN {"nps_score", "is_detractor", "is_promoter"}
            ELSE {})
           \cup (IF hasRes THEN {"avg_resolution_hours"} ELSE {}) |->
        CASE c = "nps_score" -> nps
          [] c = "is_detractor" ->
                IF isnan(nps) THEN NaN ELSE IF nps < 0 THEN 1 ELSE 0
          [] c = "is_promoter" ->
                IF isnan(nps) THEN NaN ELSE IF nps > 0 THEN 1 ELSE 0
          [] c = "avg_resolution_hours" -> res]

metrics_to_test == <<
    <<"avg_resolution_hours", "Avg Resolution Time">>,
    <<"open_cases", "Open Cases">>,
    <<"total_cases", "Total Cases">>,
    <<"clc_attendances", "CLC Attendances">>,
    <<"seg_events_12m", "Segmentation Events">>,
    <<"meetings_12m", "Meetings">>,
    <<"total_engagement", "Total Engagement">> >>

resolution_thresholds == <<100, 200, 300, 400, 500, 600, 700, 800, 900, 1000>>

\* lines 122-130: the metrics the correlation loop does not skip
TestedMetrics(d) ==
    {k \in 1..Len(metrics_to_test) :
        /\ metrics_to_test[k][1] \in d.columns
        /\ "nps_score" \in d.columns
        /\ CountTrue(PairMask(Column(d, metrics_to_test[k][1]),
                              Column(d, "nps_score"))) >= 3}

\* the library outcomes of spearman_with_ci explored inside the pipeline
MainSpearmanr(x, y) ==
    LET mask == PairMask(x, y)
    IN  SpearmanrOutcomes(Select(x, mask, 1), Select(y, mask, 1))
            \cap {<<FNaN, FNaN>>, <<<<1, 2>>, <<1, 100>>>>,
                  <<<<0, 1>>, <<1, 2>>>>}

MainBootstrap == BootstrapOutcomes \cap {<<None, None>>, <<<<-1, 2>>, <<1, 2>>>>}

\* the resamples of roc_analysis explored inside the pipeline
MainBoots(n) ==
    {[b \in 1..MaxBootstraps |-> [i \in 1..n |-> i]],
     [b \in 1..MaxBootstraps |-> [i \in 1..n |-> 1]]}

\* a mutation: the held-out row scored with the v1 weights
predict_v2_with_v1(X, i) ==
    LET X_test == [columns |-> X.columns, rows |-> <<X.rows[i]>>]
        arm    == calculate_arm_v1(X_test)
        csi    == 100 - arm[1]
    IN  IF csi < 80 THEN "p1" ELSE "p0"

\* lines 167-171: predict_v2 on the held-out row i of X
predict_v2(X, i) ==
    LET X_test == [columns |-> X.columns, rows |-> <<X.rows[i]>>]
        arm    == calculate_arm_v2(X_test)
        csi    == 100 - arm[1]
    IN  IF csi < 80 THEN "p1" ELSE "p0"

MainInit ==
    /\ \E hasNps \in BOOLEAN : \E hasRes \in BOOLEAN :
       \E n \in 0..MaxClients :
       \E nps \in [1..n -> IF hasNps THEN NpsValues ELSE {NaN}] :
       \E res \in [1..n -> IF hasRes THEN ResolutionValues ELSE {NaN}] :
          df_metrics =
             [columns |-> DOMAIN ClientRow(hasNps, hasRes, NaN, NaN),
              rows |-> [i \in 1..n |->
                          ClientRow(hasNps, hasRes, nps[i], res[i])]]
    /\ main_pc = "start"
    /\ power = NotCalled
    /\ correlations = NotCalled
    /\ loocv_result = NotCalled
    /\ roc_v1 = NotCalled
    /\ roc_v2 = NotCalled
    /\ comparison = NotCalled
    /\ cm = NotCalled
    /\ threshold_results = NotCalled
    /\ optimal = NotCalled
    /\ json_output = NotCalled
    /\ json_file = NotCalled
    /\ OthersIdle("main")

\* lines 94-96: no client
MainNoClients ==
    /\ main_pc = "start"
    /\ Len(df_metrics.rows) = 0
    /\ main_pc' = "returned None"
    /\ UNCHANGED <<df_metrics, power, correlations, loocv_result, roc_v1,
                   roc_v2, comparison, cm, threshold_results, optimal,
                   json_output, json_file, notMain>>

\* lines 98-104: the factor columns and the power analysis
MainPower ==
    /\ main_pc = "start"
    /\ Len(df_metrics.rows) > 0
    /\ df_metrics' = apply_factor_thresholds(df_metrics)
    /\ \E effect_size \in SolvePowerOutcomes \ {FNaN} :
          power' = minimum_detectable_effect(Len(df_metrics.rows), effect_size)
    /\ main_pc' = "correlations"
    /\ UNCHANGED <<correlations, loocv_result, roc_v1, roc_v2, comparison,
                   cm, threshold_results, optimal, json_output, json_file,
                   notMain>>

\* lines 107-145: the correlation of each metric with the NPS score
MainCorrelations ==
    /\ main_pc = "correlations"
    /\ LET tested == TestedMetrics(df_metrics)
           names  == {metrics_to_test[k][2] : k \in tested}
           col(name) == metrics_to_test[
                           CHOOSE k \in tested : metrics_to_test[k][2] = name][1]
       IN  \E sr \in [names -> {<<FNaN, FNaN>>, <<<<1, 2>>, <<1, 100>>>>,
                                 <<<<0, 1>>, <<1, 2>>>>}] :
           \E ci \in [names -> MainBootstrap] :
              /\ \A name \in names :
                    sr[name] \in MainSpearmanr(Column(df_metrics, col(name)),
                                               Column(df_metrics, "nps_score"))
              /\ correlations' =
                    [name \in names |->
                        spearman_with_ci(Column(df_metrics, col(name)),
                                         Column(df_metrics, "nps_score"),
                                         sr[name], ci[name])]
    /\ main_pc' = "scoring"
    /\ UNCHANGED <<df_metrics, power, loocv_result, roc_v1, roc_v2,
                   comparison, cm, threshold_results, optimal, json_output,
                   json_file, notMain>>

\* lines 151-154: the two scores of every client
MainScoring ==
    /\ main_pc = "scoring"
    /\ LET arm1 == calculate_arm_v1(df_metrics)
           arm2 == calculate_arm_v2(df_metrics)
           n    == Len(df_metrics.rows)
           d1   == WithColumn(df_metrics, "arm_v1", arm1)
           d2   == WithColumn(d1, "arm_v2", arm2)
           d3   == WithColumn(d2, "csi_v1", [i \in 1..n |-> 100 - arm1[i]])
           d4   == WithColumn(d3, "csi_v2", [i \in 1..n |-> 100 - arm2[i]])
       IN  df_metrics' = d4
    /\ main_pc' = "validation"
    /\ UNCHANGED <<power, correlations, loocv_result, roc_v1, roc_v2,
                   comparison, cm, threshold_results, optimal, json_output,
                   json_file, notMain>>

\* lines 157-224: the validation of the scores against the NPS outcome;
\* the exception of confusion_matrix_analysis is not caught
MainValidation ==
    /\ main_pc = "validation"
    /\ IF "nps_score" \in df_metrics.columns
       THEN LET n0 == Len(df_metrics.rows)
                d1 == Derive(df_metrics, "actual_risk", "nps_score", "<", 0)
                d2 == Derive(d1, "pred_v1", "csi_v1", "<", 80)
                d3 == Derive(d2, "pred_v2", "csi_v2", "<", 80)
                valid_clients ==
                    FilterRows(d3, [i \in 1..n0 |->
                                      ~isnan(d3.rows[i]["nps_score"])])
                n  == Len(valid_clients.rows)
                X  == DropColumns(valid_clients,
                         {"actual_risk", "pred_v1", "pred_v2", "nps_score"})
                y  == Column(valid_clients, "actual_risk")
                loocv == loocv_accuracy(y, [i \in 1..n |-> predict_v2(X, i)])
                cm_call == confusion_matrix_analysis(
                              y, Column(valid_clients, "pred_v2"))
            IN  /\ df_metrics' = d3
                /\ IF n >= 3
                   THEN /\ loocv_result' = loocv.value
                        /\ \E b1 \in MainBoots(n) : \E b2 \in MainBoots(n) :
                              /\ roc_v1' = roc_analysis(
                                    y, Column(valid_clients, "arm_v1"), b1)
                              /\ roc_v2' = roc_analysis(
                                    y, Column(valid_clients, "arm_v2"), b2)
                        /\ comparison' = compare_models(
                              y, Column(valid_clients, "pred_v1"),
                              Column(valid_clients, "pred_v2"))
                        /\ IF cm_call.kind = "raised"
                           THEN /\ cm' = cm
                                /\ main_pc' = "aborted"
                           ELSE /\ cm' = cm_call.value
                                /\ main_pc' = "threshold"
                   ELSE /\ loocv_result' = EmptyDict
                        /\ roc_v1' = EmptyDict
                        /\ roc_v2' = EmptyDict
                        /\ comparison' = EmptyDict
                        /\ cm' = EmptyDict
                        /\ main_pc' = "threshold"
       ELSE /\ df_metrics' = df_metrics
            /\ loocv_result' = EmptyDict
            /\ roc_v1' = EmptyDict
            /\ roc_v2' = EmptyDict
            /\ comparison' = EmptyDict
            /\ cm' = EmptyDict
            /\ main_pc' = "threshold"
    /\ UNCHANGED <<power, correlations, threshold_results, optimal,
                   json_output, json_file, notMain>>

\* lines 229-244: the threshold sweep and the row of the largest absolute
\* delta; .loc of the label NaN raises KeyError, which is not caught
MainThreshold ==
    /\ main_pc = "threshold"
    /\ IF /\ "avg_resolution_hours" \in df_metrics.columns
          /\ "nps_score" \in df_metrics.columns
       THEN LET thresh_df == threshold_sensitivity(
                                Column(df_metrics, "avg_resolution_hours"),
                                Column(df_metrics, "nps_score"),
                                resolution_thresholds)
                label == AbsIdxmax([k \in 1..Len(thresh_df) |->
                                       thresh_df[k].nps_delta])
            IN  /\ threshold_results' = [resolution_time |-> thresh_df]
                /\ IF Len(thresh_df) > 0
                   THEN IF isnan(label)
                        THEN /\ optimal' = optimal
                             /\ main_pc' = "aborted"
                        ELSE /\ optimal' = thresh_df[label]
                             /\ main_pc' = "outputs"
                   ELSE /\ optimal' = optimal
                        /\ main_pc' = "outputs"
       ELSE /\ threshold_results' = EmptyDict
            /\ optimal' = optimal
            /\ main_pc' = "outputs"
    /\ UNCHANGED <<df_metrics, power, correlations, loocv_result, roc_v1,
                   roc_v2, comparison, cm, json_output, json_file, notMain>>

\* lines 254-304: the result record, the JSON file and the return (the
\* report formats every value behind a test, the plots are drawn inside a
\* try block)
MainOutputs ==
    /\ main_pc = "outputs"
    /\ json_output' =
          [n_clients |-> Len(df_metrics.rows),
           power_analysis |-> power,
           correlations |-> correlations,
           loocv |-> loocv_result,
           roc_v1 |-> roc_v1,
           roc_v2 |-> roc_v2,
           model_comparison |-> comparison,
           confusion_matrix |-> cm,
           threshold_sensitivity |-> threshold_results]
    /\ json_file' = generate_json_output(json_output')
    /\ main_pc' = "returned json_output"
    /\ UNCHANGED <<df_metrics, power, correlations, loocv_result, roc_v1,
                   roc_v2, comparison, cm, threshold_results, optimal,
                   notMain>>

MainNext ==
    \/ MainNoClients
    \/ MainPower
    \/ MainCorrelations
    \/ MainScoring
    \/ MainValidation
    \/ MainThreshold
    \/ MainOutputs

SpecMain == MainInit /\ [][MainNext]_vars

(***************************************************************************)
(* C2.  Given a non-empty metric table, main runs through the power        *)
(* analysis, the correlations, the scoring, the validation and the         *)
(* threshold sweep, assembles the result record and returns it: no table   *)
(* makes the run abort.                                                    *)
(***************************************************************************)
C2_MainNeverAborts == main_pc /= "aborted"

\* three clients, none at risk and none predicted at risk: the confusion
\* matrix has one cell and its unpacking aborts the run
C2_AbortInValidation ==
    /\ main_pc = "aborted"
    /\ cm = NotCalled
    /\ threshold_results = NotCalled

\* every threshold leaves a group empty: no row has a largest delta
C2_AbortInThresholdSweep ==
    /\ main_pc = "aborted"
    /\ threshold_results /= NotCalled
    /\ \A k \in 1..Len(threshold_results.resolution_time) :
          IsFNaN(threshold_results.resolution_time[k].nps_delta)

\* the runs that neither abort: the record is returned
C2_ReturnsRecord ==
    /\ main_pc = "returned json_output"
    /\ json_output.confusion_matrix /= EmptyDict
    /\ json_output.threshold_sensitivity /= EmptyDict

(***************************************************************************)
(* C7.  In the file written by generate_json_output every unavailable      *)
(* value of the result record (None or NaN) stands as null under its key.  *)
(***************************************************************************)
Unavailable(v) == IsNone(v) \/ IsFNaN(v)

C7_UnavailableWrittenAsNull ==
    main_pc = "returned json_output" =>
        \A l \in JsonLeaves(json_output) :
            Unavailable(l.value) =>
                [path |-> l.path, token |-> "null"] \in json_file

\* None is written as null
C7_NoneWrittenAsNull ==
    main_pc = "returned json_output" =>
        \A l \in JsonLeaves(json_output) :
            IsNone(l.value) =>
                [path |-> l.path, token |-> "null"] \in json_file

\* a record with a None and a NaN in the file
C7_NaNInFile ==
    /\ main_pc = "returned json_output"
    /\ \E e \in json_file : e.token = "NaN"
    /\ \E e \in json_file : e.token = "null"

(***************************************************************************)
(* confusion_matrix_analysis on arrays given by their four cell counts:    *)
(* the function only counts entities, so one array pair per combination of *)
(* counts is enough.                                                       *)
(***************************************************************************)
\* tn entities <<0, 0>>, then fp <<0, 1>>, then fn <<1, 0>>, then tp <<1, 1>>
CellBlocks(tn, fp, fn, tp) ==
    [i \in 1..(tn + fp + fn + tp) |->
        IF i <= tn THEN <<0, 0>>
        ELSE IF i <= tn + fp THEN <<0, 1>>
        ELSE IF i <= tn + fp + fn THEN <<1, 0>>
        ELSE <<1, 1>>]

CmCellsInit ==
    /\ \E tn \in 0..MaxCell : \E fp \in 0..MaxCell :
       \E fn \in 0..MaxCell : \E tp \in 0..MaxCell :
          /\ tn + fp + fn + tp >= 1
          /\ cm_y_true = [i \in 1..(tn + fp + fn + tp) |->
                             CellBlocks(tn, fp, fn, tp)[i][1]]
          /\ cm_y_pred = [i \in 1..(tn + fp + fn + tp) |->
                             CellBlocks(tn, fp, fn, tp)[i][2]]
    /\ cm_result = NotCalled
    /\ OthersIdle("cm")

SpecCmCells == CmCellsInit /\ [][CmNext]_vars

(***************************************************************************)
(* C11.  From the counts TP, FP, FN and TN confusion_matrix_analysis       *)
(* reports sensitivity = TP/(TP+FN), specificity = TN/(TN+FP), precision = *)
(* TP/(TP+FP) and F1 = 2*precision*sensitivity/(precision+sensitivity); a  *)
(* metric whose denominator is zero is undefined (None), F1 also when      *)
(* precision or sensitivity is undefined or both are zero.  TP=8, FP=2,    *)
(* FN=1, TN=9 gives 8/9, 9/11 and 8/10.                                    *)
(***************************************************************************)
\* v is the quotient num / den, or None when den is zero
IsQuotient(v, num, den) ==
    IF den = 0 THEN IsNone(v)
    ELSE ~IsNone(v) /\ ~IsFNaN(v) /\ v[1] * den = num * v[2]

C11_UndefinedSensitivity ==
    /\ cm_result /= NotCalled
    /\ cm_result.kind = "returned"
    /\ cm_result.value.true_positives + cm_result.value.false_negatives = 0
    /\ IsNone(cm_result.value.sensitivity)
    /\ IsNone(cm_result.value.f1_score)
    /\ cm_result.value.precision = <<0, 1>>

(***************************************************************************)
(* C12.  roc_analysis removes every pair with a missing label or score; if *)
(* fewer than 2 distinct labels remain it returns AUC and both interval    *)
(* bounds undefined with interpretation 'insufficient classes', and runs   *)
(* neither the ROC computation nor the bootstrap.                          *)
(***************************************************************************)
\* the labels of the pairs with neither side missing
LabelsLeft ==
    {roc_y_true[i] : i \in CompletePairs(roc_y_true, roc_y_scores)}

C12_InsufficientClasses ==
    (roc_pc = "done" /\ Cardinality(LabelsLeft) < 2) =>
        /\ roc_result.kind = "returned"
        /\ IsFNaN(roc_result.value.auc)
        /\ IsFNaN(roc_result.value.ci_lower)
        /\ IsFNaN(roc_result.value.ci_upper)
        /\ roc_result.value.interpretation = "insufficient classes"
        /\ roc_iter = 0
        /\ auc_scores = <<>>

\* both labels occur in the input, but the only positive has no score
C12_Witness ==
    /\ roc_pc = "done"
    /\ {0, 1} \subseteq Range(roc_y_true)
    /\ LabelsLeft = {0}
    /\ roc_result.value.interpretation = "insufficient classes"

(***************************************************************************)
(* The threshold sweep of the pipeline on its own:                         *)
(* csi_statistical_analysis.py lines 229-244, over metric values that the  *)
(* grid separates at 100 and at 200.                                       *)
(***************************************************************************)
SweepInit ==
    /\ \E n \in 1..MaxSweep :
          /\ sw_metric \in [1..n -> {50, 150, 250}]
          /\ sw_nps \in [1..n -> {-50, 50, NaN}]
    /\ sw_thresh_df = NotCalled
    /\ sw_optimal = NotCalled
    /\ OthersIdle("sweep")

\* lines 231-238: threshold_sensitivity over the grid
SweepThresholds ==
    /\ sw_thresh_df = NotCalled
    /\ sw_thresh_df' = Returned(threshold_sensitivity(
                                   sw_metric, sw_nps, resolution_thresholds))
    /\ UNCHANGED <<sw_metric, sw_nps, sw_optimal, notSweep>>

\* lines 241-242: the row of the largest absolute delta
SweepOptimal ==
    /\ sw_thresh_df /= NotCalled
    /\ sw_optimal = NotCalled
    /\ LET thresh_df == sw_thresh_df.value
           label == AbsIdxmax([k \in 1..Len(thresh_df) |->
                                  thresh_df[k].nps_delta])
       IN  sw_optimal' = IF isnan(label) THEN Raised
                         ELSE Returned(thresh_df[label])
    /\ UNCHANGED <<sw_metric, sw_nps, sw_thresh_df, notSweep>>

SweepNext == SweepThresholds \/ SweepOptimal

SpecSweep == SweepInit /\ [][SweepNext]_vars

(***************************************************************************)
(* C13.  The sweep result holds entries only for the thresholds that leave *)
(* both the above group and the below group non-empty.                     *)
(***************************************************************************)
C13_EmptyGroupThresholdsSkipped ==
    sw_thresh_df /= NotCalled =>
        \A k \in 1..Len(sw_thresh_df.value) :
            /\ sw_thresh_df.value[k].n_above > 0
            /\ sw_thresh_df.value[k].n_below > 0

\* what the code does: one entry per threshold of the grid, in grid order,
\* the entry of a threshold with an empty group holding undefined values
C13_OneEntryPerThreshold ==
    sw_thresh_df /= NotCalled =>
        /\ Len(sw_thresh_df.value) = Len(resolution_thresholds)
        /\ \A k \in 1..Len(resolution_thresholds) :
              LET e == sw_thresh_df.value[k]
              IN  /\ e.threshold = resolution_thresholds[k]
                  /\ (e.n_above = 0 \/ e.n_below = 0) <=> IsFNaN(e.nps_delta)
                  /\ IsFNaN(e.nps_delta) =>
                        /\ IsFNaN(e.cohens_d)
                        /\ e.effect_magnitude = "insufficient data"

(***************************************************************************)
(* C14.  The optimal threshold the pipeline reports is the grid threshold  *)
(* whose delta has the largest absolute value among the thresholds with a  *)
(* defined delta; of several thresholds with that value the first in grid  *)
(* order is reported.                                                      *)
(***************************************************************************)
\* |p| <= |q| and |p| < |q| for defined reals
AbsLeq(p, q) == p[1] * p[1] * q[2] * q[2] <= q[1] * q[1] * p[2] * p[2]
AbsLess(p, q) == p[1] * p[1] * q[2] * q[2] < q[1] * q[1] * p[2] * p[2]

C14_OptimalIsFirstLargest ==
    (sw_optimal /= NotCalled /\ sw_optimal.kind = "returned") =>
        \E k \in 1..Len(sw_thresh_df.value) :
            LET t == sw_thresh_df.value
            IN  /\ sw_optimal.value = t[k]
                /\ sw_optimal.value.threshold = resolution_thresholds[k]
                /\ ~IsFNaN(t[k].nps_delta)
                /\ \A j \in 1..Len(t) :
                      IsFNaN(t[j].nps_delta)
                          \/ AbsLeq(t[j].nps_delta, t[k].nps_delta)
                /\ \A j \in 1..(k - 1) :
                      IsFNaN(t[j].nps_delta)
                          \/ AbsLess(t[j].nps_delta, t[k].nps_delta)

\* the thresholds 100 and 200 tie on the largest absolute delta: 100, the
\* first in grid order, is reported
C14_Witness ==
    /\ sw_optimal /= NotCalled
    /\ sw_optimal.kind = "returned"
    /\ sw_optimal.value.threshold = 100
    /\ sw_thresh_df.value[1].nps_delta = <<100, 1>>
    /\ sw_thresh_df.value[2].nps_delta = <<100, 1>>

\* the largest absolute delta is not at the first threshold
C14_LaterOptimum ==
    /\ sw_optimal /= NotCalled
    /\ sw_optimal.kind = "returned"
    /\ sw_optimal.value.threshold = 200
    /\ ~IsFNaN(sw_thresh_df.value[1].nps_delta)

(***************************************************************************)
(* extract.py, _is_declining_2_periods.  A response is a record of client, *)
(* period and score; periods are numbered in their sort order.             *)
(***************************************************************************)
\* the sorted values of a set of integers
RECURSIVE SortedSeq(_)
SortedSeq(S) ==
    IF S = {} THEN <<>>
    ELSE LET m == CHOOSE m \in S : \A x \in S : m <= x
         IN  <<m>> \o SortedSeq(S \ {m})

\* client_nps.groupby('period')['score'].mean().sort_index()
PeriodScores(client_nps) ==
    LET periods == SortedSeq({client_nps[i].period : i \in 1..Len(client_nps)})
    IN  [k \in 1..Len(periods) |->
            Mean(Select([i \in 1..Len(client_nps) |-> client_nps[i].score],
                        [i \in 1..Len(client_nps) |->
                            client_nps[i].period = periods[k]], 1))]

RECURSIVE DeclineLoopNoReset(_, _, _)
\* a mutation of DeclineLoop: a flat or rising step keeps the streak
DeclineLoopNoReset(period_scores, k, declines) ==
    IF k > Len(period_scores) THEN FALSE
    ELSE IF k > 1 /\ RLess(period_scores[k], period_scores[k - 1])
         THEN IF declines + 1 >= 2 THEN TRUE
              ELSE DeclineLoopNoReset(period_scores, k + 1, declines + 1)
         ELSE DeclineLoopNoReset(period_scores, k + 1, declines)

RECURSIVE DeclineLoop(_, _, _)
\* lines 380-391: the loop from the k-th period mean on, prev_score being
\* the mean before it and declines the streak so far
DeclineLoop(period_scores, k, declines) ==
    IF k > Len(period_scores) THEN FALSE
    ELSE IF k > 1 /\ RLess(period_scores[k], period_scores[k - 1])
         THEN IF declines + 1 >= 2 THEN TRUE
              ELSE DeclineLoop(period_scores, k + 1, declines + 1)
         ELSE DeclineLoop(period_scores, k + 1, 0)

is_declining_2_periods(df_nps, client) ==
    LET client_nps == Select(df_nps, [i \in 1..Len(df_nps) |->
                                         df_nps[i].client_name = client], 1)
        period_scores == PeriodScores(client_nps)
    IN  IF Len(client_nps) < 2 THEN FALSE
        ELSE IF Len(period_scores) < 2 THEN FALSE
        ELSE DeclineLoop(period_scores, 1, 0)

\* the responses of client "a": four periods, three scores
ResponseKinds == [client_name : {"a"}, period : 1..4, score : {0, 1, 2}]

\* the table holds one response of another client and up to MaxResponses
\* responses of client "a", in any order of period
DeclInit ==
    /\ \E n \in 0..MaxResponses : \E rows \in [1..n -> ResponseKinds] :
          dc_df_nps = <<[client_name |-> "b", period |-> 1, score |-> 2]>>
                         \o rows
    /\ dc_result = NotCalled
    /\ OthersIdle("declining")

IsDeclining2Periods ==
    /\ dc_result = NotCalled
    /\ dc_result' = Returned(is_declining_2_periods(dc_df_nps, "a"))
    /\ UNCHANGED <<dc_df_nps, notDecl>>

DeclNext == IsDeclining2Periods

SpecDeclining == DeclInit /\ [][DeclNext]_vars

(***************************************************************************)
(* C15.  _is_declining_2_periods averages the entity's scores within each  *)
(* period and returns true exactly when three period means consecutive in  *)
(* ascending period order are strictly decreasing, whatever the order of   *)
(* the rows; a flat or rising step ends a streak, and fewer than three     *)
(* periods give false.                                                     *)
(***************************************************************************)
\* the rows of client "a" in period q
RowsOf(q) ==
    {i \in 1..Len(dc_df_nps) :
        dc_df_nps[i].client_name = "a" /\ dc_df_nps[i].period = q}

ScoreSum(q) == SumSet(RowsOf(q), [i \in 1..Len(dc_df_nps) |-> dc_df_nps[i].score])

PeriodsOfA == {q \in 1..4 : RowsOf(q) /= {}}

\* three periods of the entity, consecutive among its periods, whose means
\* (sum / count) fall strictly from each to the next
TwoConsecutiveDeclines ==
    LET P   == PeriodsOfA
        cnt == [q \in 1..4 |-> Cardinality(RowsOf(q))]
        sum == [q \in 1..4 |-> ScoreSum(q)]
    IN  \E q \in P : \E r \in P : \E t \in P :
           /\ q < r /\ r < t
           /\ \A x \in P : ~(q < x /\ x < r) /\ ~(r < x /\ x < t)
           /\ sum[r] * cnt[q] < sum[q] * cnt[r]
           /\ sum[t] * cnt[r] < sum[r] * cnt[t]

C15_DecliningTwoPeriods ==
    dc_result /= NotCalled =>
        /\ dc_result.kind = "returned"
        /\ dc_result.value <=> TwoConsecutiveDeclines
        /\ Cardinality(PeriodsOfA) < 3 => ~dc_result.value

\* rows out of period order, two responses averaged in one period, means
\* 2, 1, 0 over three periods: declining
C15_Witness ==
    /\ dc_result = Returned(TRUE)
    /\ Len(dc_df_nps) = 5
    /\ dc_df_nps[2].period > dc_df_nps[3].period
    /\ \E q \in 1..4 : Cardinality(RowsOf(q)) = 2 /\ ScoreSum(q) = 2

\* means 2, 1, 1, 0: two declines separated by a flat step, not declining
C15_FlatStepResets ==
    /\ dc_result = Returned(FALSE)
    /\ \A q \in 1..4 : Cardinality(RowsOf(q)) = 1
    /\ ScoreSum(1) = 2 /\ ScoreSum(2) = 1 /\ ScoreSum(3) = 1 /\ ScoreSum(4) = 0

(***************************************************************************)
(* validation.py, apply_factor_thresholds on a table of raw metrics.       *)
(***************************************************************************)
MaxRawCols == 2
MaxRecords == 2

\* the raw metric columns the function reads
RawColumns == {"open_cases", "sla_open_cases", "avg_resolution_hours",
               "seg_events_12m", "total_engagement", "nps_response_count"}

\* the values of a raw metric around its threshold; the counts of
\* extract.py are never missing, the case and resolution metrics can be
RawValues(c) ==
    CASE c = "open_cases" -> {10, 11, NaN}
      [] c = "sla_open_cases" -> {10, 11, NaN}
      [] c = "avg_resolution_hours" -> {700, 701, NaN}
      [] c = "seg_events_12m" -> {0, 1, 2}
      [] c = "total_engagement" -> {0, 1}
      [] c = "nps_response_count" -> {0, 1}

RawRecords(cs) == {r \in [cs -> {0, 1, 2, 10, 11, 700, 701, NaN}] :
                      \A c \in cs : r[c] \in RawValues(c)}

FactInit ==
    /\ \E cs \in {S \in SUBSET RawColumns : Cardinality(S) <= MaxRawCols} :
       \E n \in 1..MaxRecords : \E rows \in [1..n -> RawRecords(cs)] :
          ft_df = [columns |-> cs, rows |-> rows]
    /\ ft_result = NotCalled
    /\ OthersIdle("factors")

\* line 128: the function works on a copy, the caller's table stays
ApplyFactorThresholds ==
    /\ ft_result = NotCalled
    /\ ft_result' = Returned(apply_factor_thresholds(ft_df))
    /\ ft_df' = ft_df
    /\ UNCHANGED notFact

FactNext == ApplyFactorThresholds

SpecFactors == FactInit /\ [][FactNext]_vars

(***************************************************************************)
(* C16.  apply_factor_thresholds flags, record by record, a backlog of     *)
(* open items strictly above 10, a mean resolution time strictly above 700 *)
(* hours, strictly fewer than 2 strategic events, a total engagement of 0  *)
(* and a response count of 0; the values 10, 700 and 2 are not flagged;    *)
(* the factors of a record depend on that record alone, and the caller's   *)
(* table is left as it was.                                                *)
(***************************************************************************)
\* the column the backlog is read from: open_cases, or sla_open_cases when
\* the table has no open_cases (lines 131-134)
OpenItems(cs) == IF "open_cases" \in cs THEN "open_cases" ELSE "sla_open_cases"

\* the column attendance is read from: total_engagement, or seg_events_12m
\* when the table has no total_engagement (lines 145-148)
Engagement(cs) ==
    IF "total_engagement" \in cs THEN "total_engagement" ELSE "seg_events_12m"

\* the factors of output record o are those the rules give input record r
FactorRules(cs, r, o) ==
    /\ \A c \in cs : o[c] = r[c]
    /\ OpenItems(cs) \in cs =>
          /\ o.factor_backlog_gt10 \in {0, 1}
          /\ o.factor_backlog_gt10 = 1 <=>
                (r[OpenItems(cs)] /= NaN /\ r[OpenItems(cs)] > 10)
          /\ r[OpenItems(cs)] = 10 => o.factor_backlog_gt10 = 0
    /\ "avg_resolution_hours" \in cs =>
          /\ o.factor_resolution_gt700h \in {0, 1}
          /\ o.factor_resolution_gt700h = 1 <=>
                (r.avg_resolution_hours /= NaN /\ r.avg_resolution_hours > 700)
          /\ r.avg_resolution_hours = 700 => o.factor_resolution_gt700h = 0
    /\ "seg_events_12m" \in cs =>
          /\ o.factor_strategic_ops_lt2 \in {0, 1}
          /\ o.factor_strategic_ops_lt2 = 1 <=> r.seg_events_12m < 2
          /\ r.seg_events_12m = 2 => o.factor_strategic_ops_lt2 = 0
    /\ Engagement(cs) \in cs =>
          /\ o.factor_no_event_attendance \in {0, 1}
          /\ o.factor_no_event_attendance = 1 <=> r[Engagement(cs)] = 0
    /\ "nps_response_count" \in cs =>
          /\ o.factor_nps_no_response \in {0, 1}
          /\ o.factor_nps_no_response = 1 <=> r.nps_response_count = 0

\* the call made on the table holding record r alone
AloneRecord(cs, r) ==
    apply_factor_thresholds([columns |-> cs, rows |-> <<r>>]).rows[1]

FactorsOfCall(inp, out) ==
    /\ out.kind = "returned"
    /\ inp.columns \subseteq out.value.columns
    /\ Len(out.value.rows) = Len(inp.rows)
    /\ \A i \in 1..Len(inp.rows) :
          /\ FactorRules(inp.columns, inp.rows[i], out.value.rows[i])
          /\ out.value.rows[i] = AloneRecord(inp.columns, inp.rows[i])

C16_FactorThresholds ==
    [][ft_result' /= NotCalled =>
          /\ ft_df' = ft_df
          /\ FactorsOfCall(ft_df, ft_result')]_vars

\* two records, one on each boundary and one step past the other
C16_Witness ==
    /\ ft_result /= NotCalled
    /\ ft_df.columns = {"open_cases", "avg_resolution_hours"}
    /\ Len(ft_df.rows) = 2
    /\ ft_df.rows[1].open_cases = 10 /\ ft_df.rows[1].avg_resolution_hours = 701
    /\ ft_df.rows[2].open_cases = 11 /\ ft_df.rows[2].avg_resolution_hours = 700
    /\ ft_result.value.rows[1].factor_backlog_gt10 = 0
    /\ ft_result.value.rows[1].factor_resolution_gt700h = 1
    /\ ft_result.value.rows[2].factor_backlog_gt10 = 1
    /\ ft_result.value.rows[2].factor_resolution_gt700h = 0

\* no total engagement in the table: a record without strategic events is
\* flagged for attendance
C16_EngagementFallback ==
    /\ ft_result /= NotCalled
    /\ ft_df.columns = {"seg_events_12m"}
    /\ Len(ft_df.rows) = 1
    /\ ft_df.rows[1].seg_events_12m = 0
    /\ ft_result.value.rows[1].factor_no_event_attendance = 1
    /\ ft_result.value.rows[1].factor_strategic_ops_lt2 = 1

(***************************************************************************)
(* csi_statistical_analysis.py, lines 151-171: the health index of each    *)
(* model version and the at-risk predictions made from it.  ct_cut is the  *)
(* cut the caller of main would like applied; main(output_dir, period,     *)
(* verbose) has no parameter that receives it.                             *)
(***************************************************************************)
\* the cuts a caller may ask for
CutChoices == {70, 80, 90}

\* lines 151-160: df_metrics with the score, index and prediction columns
index_and_predictions(d) ==
    LET arm1 == calculate_arm_v1(d)
        arm2 == calculate_arm_v2(d)
        n    == Len(d.rows)
        d1   == WithColumn(d, "arm_v1", arm1)
        d2   == WithColumn(d1, "arm_v2", arm2)
        d3   == WithColumn(d2, "csi_v1", [i \in 1..n |-> 100 - arm1[i]])
        d4   == WithColumn(d3, "csi_v2", [i \in 1..n |-> 100 - arm2[i]])
        d5   == Derive(d4, "pred_v1", "csi_v1", "<", 80)
        d6   == Derive(d5, "pred_v2", "csi_v2", "<", 80)
    IN  d6

\* lines 167-177: what the LOOCV scoring function returns for each row of
\* the table handed to loocv_accuracy
loocv_predictions(d) ==
    LET X == DropColumns(d, {"actual_risk", "pred_v1", "pred_v2", "nps_score"})
    IN  [i \in 1..Len(X.rows) |-> IF predict_v2(X, i) = "p1" THEN 1 ELSE 0]

CutInit ==
    /\ \E C \in ColumnSets : \E n \in 1..MaxEntities :
         \E r \in [1..n -> [C -> {0, 1}]] :
            ct_df = [columns |-> C, rows |-> r]
    /\ ct_cut \in CutChoices
    /\ ct_result = NotCalled
    /\ OthersIdle("cut")

CutPredict ==
    /\ ct_result = NotCalled
    /\ LET d == index_and_predictions(ct_df)
       IN  ct_result' = Returned([table |-> d, loocv |-> loocv_predictions(d)])
    /\ UNCHANGED <<ct_df, ct_cut, notCut>>

CutNext == CutPredict

SpecCut == CutInit /\ [][CutNext]_vars

(***************************************************************************)
(* C17.  For each model version the health index of an entity is 100 minus *)
(* its risk score, and the at-risk prediction is 1 exactly when the index  *)
(* is below the cut the caller configured (80 when left at the default);   *)
(* the v1 prediction, the v2 prediction and the LOOCV scoring function     *)
(* apply the same cut.                                                     *)
(***************************************************************************)
\* the index is 100 minus the score, and every prediction is made by
\* comparing the index with cut
PredictionsCutAt(cut) ==
    LET t == ct_result.value.table
    IN  \A i \in 1..Len(ct_df.rows) :
           /\ t.rows[i].csi_v1 = 100 - calculate_arm_v1(ct_df)[i]
           /\ t.rows[i].csi_v2 = 100 - calculate_arm_v2(ct_df)[i]
           /\ t.rows[i].pred_v1 = (IF t.rows[i].csi_v1 < cut THEN 1 ELSE 0)
           /\ t.rows[i].pred_v2 = (IF t.rows[i].csi_v2 < cut THEN 1 ELSE 0)
           /\ ct_result.value.loocv[i] =
                 (IF t.rows[i].csi_v2 < cut THEN 1 ELSE 0)

C17_CutIsConfigurable ==
    ct_result /= NotCalled =>
        /\ ct_result.kind = "returned"
        /\ PredictionsCutAt(ct_cut)

\* what the code does: the cut is 80 whatever the caller asked for
C17_CutFixedAt80 ==
    ct_result /= NotCalled =>
        /\ ct_result.kind = "returned"
        /\ PredictionsCutAt(80)

\* the caller asks for a cut of 90 and an entity with index 88 is not
\* predicted at risk
C17_CutIgnored ==
    /\ ct_result /= NotCalled
    /\ ct_cut = 90
    /\ \E i \in 1..Len(ct_df.rows) :
          /\ ct_result.value.table.rows[i].csi_v2 = 88
          /\ ct_result.value.table.rows[i].pred_v2 = 0
          /\ ct_result.value.loocv[i] = 0

\* an index exactly on 80 is not predicted at risk by either version
C17_BoundaryAt80 ==
    /\ ct_result /= NotCalled
    /\ \E i \in 1..Len(ct_df.rows) :
          /\ ct_result.value.table.rows[i].csi_v1 = 80
          /\ ct_result.value.table.rows[i].pred_v1 = 0
          /\ ct_result.value.table.rows[i].csi_v2 = 80
          /\ ct_result.value.table.rows[i].pred_v2 = 0
          /\ ct_result.value.loocv[i] = 0

\* an index below 80 is predicted at risk
C17_Below80 ==
    /\ ct_result /= NotCalled
    /\ \E i \in 1..Len(ct_df.rows) :
          /\ ct_result.value.table.rows[i].csi_v2 = 73
          /\ ct_result.value.table.rows[i].pred_v2 = 1
          /\ ct_result.value.loocv[i] = 1

(***************************************************************************)
(* statistics.py, cohens_d on two arrays of observations.                  *)
(***************************************************************************)
MaxObs == 3

RECURSIVE SeqsUpTo(_, _)
\* the sequences over S of length at most n
SeqsUpTo(S, n) ==
    IF n = 0 THEN {<<>>}
    ELSE SeqsUpTo(S, n - 1) \cup [1..n -> S]

\* the documented example, and pairs of arrays whose effect is exactly
\* 0.2, 0.5 and 0.8
ExamplePairs ==
    {<< <<10, 12, 14, 16>>, <<2, 4, 6, 8>> >>,
     << <<1, 6, 11>>, <<0, 5, 10>> >>,
     << <<1, 3, 5>>, <<0, 2, 4>> >>,
     << <<4, 9, 14>>, <<0, 5, 10>> >>}

\* the two arrays: any short arrays of small values with missing entries,
\* or one of the example pairs, in either order
CohenInit ==
    /\ \/ /\ cd_group1 \in SeqsUpTo({NaN, 0, 1, 2}, MaxObs)
          /\ cd_group2 \in SeqsUpTo({NaN, 0, 1, 2}, MaxObs)
       \/ \E p \in ExamplePairs :
             \/ cd_group1 = p[1] /\ cd_group2 = p[2]
             \/ cd_group1 = p[2] /\ cd_group2 = p[1]
    /\ cd_result = NotCalled
    /\ OthersIdle("cohen")

CohensD ==
    /\ cd_result = NotCalled
    /\ cd_result' = Returned(cohens_d(cd_group1, cd_group2))
    /\ UNCHANGED <<cd_group1, cd_group2, notCohen>>

CohenNext == CohensD

SpecCohen == CohenInit /\ [][CohenNext]_vars

(***************************************************************************)
(* C18.  cohens_d drops the missing values of each group on its own; with  *)
(* fewer than 2 observations left in either group it returns an undefined  *)
(* effect labelled 'insufficient data'; with at least 2 in both and a      *)
(* pooled standard deviation of exactly zero it returns an undefined       *)
(* effect labelled 'zero variance'; in both cases it returns.              *)
(***************************************************************************)
\* the positions of a group that hold an observation
Observed(a) == {i \in 1..Len(a) : a[i] /= NaN}

\* every observation of the group has the same value: its variance is 0
Constant(a) == \A i \in Observed(a) : \A j \in Observed(a) : a[i] = a[j]

C18_UndefinedEffects ==
    cd_result /= NotCalled =>
        LET k1 == Cardinality(Observed(cd_group1))
            k2 == Cardinality(Observed(cd_group2))
            r  == cd_result.value
        IN  /\ cd_result.kind = "returned"
            /\ (k1 < 2 \/ k2 < 2) =>
                  r = [d |-> FNaN, magnitude |-> "insufficient data"]
            /\ (k1 >= 2 /\ k2 >= 2 /\ Constant(cd_group1) /\ Constant(cd_group2))
                  => r = [d |-> FNaN, magnitude |-> "zero variance"]
            /\ (k1 >= 2 /\ k2 >= 2 /\ ~(Constant(cd_group1) /\ Constant(cd_group2)))
                  => /\ ~IsFNaN(r.d)
                     /\ r.n1 = k1
                     /\ r.n2 = k2

\* three entries with one missing against one observation: the first group
\* is long enough on its own count, the second is not
C18_Witness ==
    /\ cd_result = Returned([d |-> FNaN, magnitude |-> "insufficient data"])
    /\ Len(cd_group1) = 3
    /\ Cardinality(Observed(cd_group1)) = 2
    /\ cd_group1[2] = NaN
    /\ Cardinality(Observed(cd_group2)) = 1

\* two constant groups of different value: zero variance
C18_ZeroVariance ==
    /\ cd_result = Returned([d |-> FNaN, magnitude |-> "zero variance"])
    /\ cd_group1 = <<1, NaN, 1>>
    /\ cd_group2 = <<2, 2>>

(***************************************************************************)
(* C19.  Whenever cohens_d computes a defined effect d, the magnitude is   *)
(* 'negligible' for |d| < 0.2, 'small' for 0.2 <= |d| < 0.5, 'medium' for  *)
(* 0.5 <= |d| < 0.8 and 'large' otherwise; swapping the two groups negates *)
(* d and leaves the label as it was; group1 = [10, 12, 14, 16] against     *)
(* group2 = [2, 4, 6, 8] is 'large'.                                       *)
(***************************************************************************)
\* |d| < b / 10 for the effect carried as dd = d * |d| = <<num, den>>,
\* den > 0: |num| * 100 < b * b * den
AbsDBelow(dd, b) ==
    (IF dd[1] < 0 THEN -dd[1] ELSE dd[1]) * 100 < b * b * dd[2]

LabelOfAbsD(dd) ==
    CASE AbsDBelow(dd, 2) -> "negligible"
      [] ~AbsDBelow(dd, 2) /\ AbsDBelow(dd, 5) -> "small"
      [] ~AbsDBelow(dd, 5) /\ AbsDBelow(dd, 8) -> "medium"
      [] OTHER -> "large"

C19_NegativeMedium ==
    /\ cd_group1 = <<0, 0, 2>>
    /\ cd_group2 = <<0, 2, 2>>
    /\ cd_result.kind = "returned"
    /\ cd_result.value.d = <<-1, 3>>
    /\ cd_result.value.magnitude = "medium"

\* a small effect
C19_Small ==
    /\ cd_result.kind = "returned"
    /\ cd_result.value.magnitude = "small"

\* two groups of equal mean and some spread: d = 0, negligible
C19_Negligible ==
    /\ cd_result.kind = "returned"
    /\ cd_result.value.magnitude = "negligible"
    /\ cd_result.value.d = <<0, 1>>

\* |d| exactly 0.2 is 'small', exactly 0.5 'medium' (here with d
\* negative), exactly 0.8 'large'
C19_BoundaryFifth ==
    /\ cd_result.kind = "returned"
    /\ cd_result.value.d = <<1, 25>>
    /\ cd_result.value.magnitude = "small"

C19_BoundaryHalf ==
    /\ cd_result.kind = "returned"
    /\ cd_result.value.d = <<-1, 4>>
    /\ cd_result.value.magnitude = "medium"

C19_BoundaryFourFifths ==
    /\ cd_result.kind = "returned"
    /\ cd_result.value.d = <<16, 25>>
    /\ cd_result.value.magnitude = "large"

(***************************************************************************)
(* statistics.py, apply_bonferroni_correction.                             *)
(***************************************************************************)
MaxTests == 3

\* the threshold left as it is, not divided
AlphaUndivided(alpha, n_tests) == alpha

\* line 202: alpha / n_tests, n_tests > 0
AdjustedAlpha(alpha, n_tests) == Norm(<<alpha[1], alpha[2] * n_tests>>)

\* lines 201-218; len(p_values) = 0 makes the division raise
apply_bonferroni_correction(p_values, alpha) ==
    LET n_tests == Len(p_values)
        adjusted_alpha == AdjustedAlpha(alpha, n_tests)
        corrected == [i \in 1..n_tests |->
            [original_p |-> p_values[i],
             significant_uncorrected |-> RLess(p_values[i], alpha),
             significant_corrected |-> RLess(p_values[i], adjusted_alpha)]]
    IN  IF n_tests = 0 THEN Raised
        ELSE Returned(
               [n_tests |-> n_tests,
                original_alpha |-> alpha,
                adjusted_alpha |-> adjusted_alpha,
                results |-> corrected,
                significant_after_correction |->
                    Len(Select(corrected,
                               [i \in 1..n_tests |->
                                   corrected[i].significant_corrected], 1))])

\* p-values on and around alpha and alpha / n, and an undefined one
PValueGrid == {FNaN, <<1, 100>>, <<1, 60>>, <<1, 40>>, <<1, 20>>, <<1, 10>>}

BonfInit ==
    /\ \E n \in 0..MaxTests : bf_p_values \in [1..n -> PValueGrid]
    /\ bf_alpha \in {<<1, 20>>, <<1, 10>>}
    /\ bf_result = NotCalled
    /\ OthersIdle("bonferroni")

ApplyBonferroniCorrection ==
    /\ bf_result = NotCalled
    /\ bf_result' = apply_bonferroni_correction(bf_p_values, bf_alpha)
    /\ UNCHANGED <<bf_p_values, bf_alpha, notBonf>>

BonfNext == ApplyBonferroniCorrection

SpecBonf == BonfInit /\ [][BonfNext]_vars

(***************************************************************************)
(* C20.  For a non-empty list of n p-values and a family-wise alpha,       *)
(* apply_bonferroni_correction returns adjusted alpha = alpha / n, one     *)
(* entry per p-value in input order with significant_uncorrected =         *)
(* (p < alpha) and significant_corrected = (p < alpha / n), and            *)
(* significant_after_correction = the number of entries whose corrected    *)
(* flag is true.                                                           *)
(***************************************************************************)
\* p < alpha / k for a defined p, by cross-multiplication
BelowAlphaOver(pv, alpha, k) ==
    pv[2] /= 0 /\ pv[1] * alpha[2] * k < alpha[1] * pv[2]

C20_BonferroniCorrection ==
    (bf_result /= NotCalled /\ Len(bf_p_values) >= 1) =>
        /\ bf_result.kind = "returned"
        /\ LET r == bf_result.value
               n == Len(bf_p_values)
           IN  /\ r.n_tests = n
               /\ r.original_alpha = bf_alpha
               /\ r.adjusted_alpha[1] * bf_alpha[2] * n
                     = bf_alpha[1] * r.adjusted_alpha[2]
               /\ DOMAIN r.results = 1..n
               /\ \A i \in 1..n :
                     /\ r.results[i].original_p = bf_p_values[i]
                     /\ r.results[i].significant_uncorrected
                           <=> BelowAlphaOver(bf_p_values[i], bf_alpha, 1)
                     /\ r.results[i].significant_corrected
                           <=> BelowAlphaOver(bf_p_values[i], bf_alpha, n)
               /\ r.significant_after_correction =
                     Cardinality({i \in 1..n :
                                     r.results[i].significant_corrected})

\* three tests at alpha 0.05: 1/40 passes uncorrected only, 1/100 passes
\* both, 1/60 sits on the adjusted threshold and does not pass it
C20_Witness ==
    /\ bf_result.kind = "returned"
    /\ bf_alpha = <<1, 20>>
    /\ bf_p_values = << <<1, 40>>, <<1, 100>>, <<1, 60>> >>
    /\ bf_result.value.adjusted_alpha = <<1, 60>>
    /\ bf_result.value.results[1].significant_uncorrected
    /\ ~bf_result.value.results[1].significant_corrected
    /\ bf_result.value.results[2].significant_corrected
    /\ bf_result.value.results[3].significant_uncorrected
    /\ ~bf_result.value.results[3].significant_corrected
    /\ bf_result.value.significant_after_correction = 1

\* no p-value at all: the division by the number of tests raises
C20_EmptyListRaises ==
    /\ bf_p_values = <<>>
    /\ bf_result = Raised

(***************************************************************************)
(* C21.  Every result record of the statistical operations, the            *)
(* insufficient-data and degenerate-input records included, carries the    *)
(* sample size or group sizes it was computed from: here, every record     *)
(* cohens_d returns has the fields n1 and n2.                              *)
(***************************************************************************)
C21_RecordsCarrySizes ==
    cd_result /= NotCalled =>
        /\ cd_result.kind = "returned"
        /\ {"n1", "n2"} \subseteq DOMAIN cd_result.value

\* what the code does: the sizes are in the record exactly when the effect
\* is defined
C21_SizesOnlyWithDefinedEffect ==
    cd_result /= NotCalled =>
        /\ cd_result.kind = "returned"
        /\ ~IsFNaN(cd_result.value.d) =>
              /\ cd_result.value.n1 = Cardinality(Observed(cd_group1))
              /\ cd_result.value.n2 = Cardinality(Observed(cd_group2))
        /\ IsFNaN(cd_result.value.d) =>
              DOMAIN cd_result.value = {"d", "magnitude"}

\* one observation against two: the record holds d and magnitude only
C21_InsufficientWithoutSizes ==
    /\ cd_group1 = <<1>>
    /\ cd_group2 = <<0, 2>>
    /\ cd_result = Returned([d |-> FNaN, magnitude |-> "insufficient data"])

(***************************************************************************)
(* C22.  In spearman_with_ci with at least 3 cleaned pairs, a failure of   *)
(* the interval computation is caught: the call returns, the result holds  *)
(* the coefficient, the p-value, n and the significance flag taken from    *)
(* the data, and both interval bounds are None together, never one         *)
(* without the other.                                                      *)
(***************************************************************************)
\* the values of x at the complete pairs, in order
CleanOf(x, y) ==
    Select(x, [i \in 1..Len(x) |-> i \in CompletePairs(x, y)], 1)

C22_IntervalFailureCaught ==
    (sp_result /= NotCalled /\ Cardinality(CompletePairs(sp_x, sp_y)) >= 3) =>
        LET r == sp_result.value
        IN  /\ sp_result.kind = "returned"
            /\ sp_boot /= NotCalled
            /\ <<r.rho, r.p_value>> \in
                  SpearmanrOutcomes(CleanOf(sp_x, sp_y), CleanOf(sp_y, sp_x))
            /\ r.n = Cardinality(CompletePairs(sp_x, sp_y))
            /\ r.significant <=>
                  (~IsFNaN(r.p_value) /\ r.p_value[1] * 20 < r.p_value[2])
            /\ sp_boot.raises /= "no" =>
                  IsNone(r.ci_lower) /\ IsNone(r.ci_upper)
            /\ IsNone(r.ci_lower) <=> IsNone(r.ci_upper)

\* three pairs, a significant coefficient, and the try block raising after
\* ci_lower was assigned: both bounds are None
C22_Witness ==
    /\ sp_result.kind = "returned"
    /\ sp_result.value.n = 3
    /\ sp_result.value.rho = <<1, 2>>
    /\ sp_result.value.p_value = <<1, 100>>
    /\ sp_result.value.significant
    /\ sp_boot /= NotCalled
    /\ sp_boot.raises = "ci_upper"
    /\ sp_boot.interval = << <<-1, 2>>, <<1, 2>> >>
    /\ IsNone(sp_result.value.ci_lower)
    /\ IsNone(sp_result.value.ci_upper)

\* bootstrap itself raising
C22_BootstrapRaises ==
    /\ sp_result.kind = "returned"
    /\ sp_boot /= NotCalled
    /\ sp_boot.raises = "bootstrap"
    /\ sp_result.value.ci_lower = None
    /\ sp_result.value.ci_upper = None
    /\ ~IsFNaN(sp_result.value.rho)

(***************************************************************************)
(* The pipeline on larger tables: every client has an SLA count of open    *)
(* cases on one side of the backlog threshold (and no case list, so no     *)
(* open_cases column), and the NPS outcome, when the table has the column, *)
(* is negative, positive or missing.                                       *)
(***************************************************************************)
MaxValid == 4
\* rows of the alias table, and calls made to the alias functions
MaxAliases == 2
MaxCalls == 3

\* the row of build_client_metrics for a client with SLA data
SlaClientRow(hasNps, nps, sla) ==
    [c \in DOMAIN ClientRow(hasNps, FALSE, nps, NaN) \cup {"sla_open_cases"} |->
        IF c = "sla_open_cases" THEN sla
        ELSE ClientRow(hasNps, FALSE, nps, NaN)[c]]

ValidInit ==
    /\ \E hasNps \in BOOLEAN : \E n \in 0..MaxValid :
       \E nps \in [1..n -> IF hasNps THEN NpsValues ELSE {NaN}] :
       \E sla \in [1..n -> {5, 15}] :
          df_metrics =
             [columns |-> DOMAIN SlaClientRow(hasNps, NaN, NaN),
              rows |-> [i \in 1..n |-> SlaClientRow(hasNps, nps[i], sla[i])]]
    /\ main_pc = "start"
    /\ power = NotCalled
    /\ correlations = NotCalled
    /\ loocv_result = NotCalled
    /\ roc_v1 = NotCalled
    /\ roc_v2 = NotCalled
    /\ comparison = NotCalled
    /\ cm = NotCalled
    /\ threshold_results = NotCalled
    /\ optimal = NotCalled
    /\ json_output = NotCalled
    /\ json_file = NotCalled
    /\ OthersIdle("main")

SpecValidation == ValidInit /\ [][MainNext]_vars

(***************************************************************************)
(* C23.  In the pipeline LOOCV, both ROC analyses, the paired comparison   *)
(* and the confusion matrix are computed over the entities whose outcome   *)
(* is present and over no other: an entity with a missing outcome is       *)
(* counted in no validation statistic, and with fewer than 3 entities of   *)
(* present outcome all five results are empty.                             *)
(***************************************************************************)
\* the validation step is over
Validated ==
    main_pc \in {"threshold", "outputs", "returned json_output", "aborted"}
        /\ comparison /= NotCalled

\* the entities whose outcome is present
Present ==
    IF "nps_score" \in df_metrics.columns
    THEN {i \in 1..Len(df_metrics.rows) : df_metrics.rows[i].nps_score /= NaN}
    ELSE {}

\* the entities of present outcome with the given truth and v2 prediction
PresentWhere(t, q) ==
    {i \in Present : /\ (df_metrics.rows[i].nps_score < 0) = (t = 1)
                     /\ df_metrics.rows[i].pred_v2 = q}

\* the entities of present outcome whose prediction in column c is right
PresentRight(c) ==
    {i \in Present :
        (df_metrics.rows[i].nps_score < 0) = (df_metrics.rows[i][c] = 1)}

\* the pairs (at risk, healthy) of present outcome, and among them twice
\* the number ranked correctly by the score in column c, a tie counting 1
PresentPairs ==
    {pr \in Present \X Present :
        /\ df_metrics.rows[pr[1]].nps_score < 0
        /\ df_metrics.rows[pr[2]].nps_score > 0}

PresentRanked2(c) ==
    2 * Cardinality({pr \in PresentPairs :
            df_metrics.rows[pr[1]][c] > df_metrics.rows[pr[2]][c]})
      + Cardinality({pr \in PresentPairs :
            df_metrics.rows[pr[1]][c] = df_metrics.rows[pr[2]][c]})

\* the area under the curve of the score in column c over the entities of
\* present outcome
PresentAuc(r, c) ==
    IF PresentPairs = {} THEN IsFNaN(r.auc)
    ELSE /\ ~IsFNaN(r.auc)
         /\ r.auc[1] * 2 * Cardinality(PresentPairs)
               = PresentRanked2(c) * r.auc[2]

C23_ValidationOverPresentOutcomes ==
    Validated =>
        IF Cardinality(Present) < 3
        THEN /\ loocv_result = EmptyDict
             /\ roc_v1 = EmptyDict
             /\ roc_v2 = EmptyDict
             /\ comparison = EmptyDict
             /\ cm = EmptyDict
        ELSE /\ loocv_result.total = Cardinality(Present)
             /\ loocv_result.correct = Cardinality(PresentRight("pred_v2"))
             /\ PresentAuc(roc_v1, "arm_v1")
             /\ PresentAuc(roc_v2, "arm_v2")
             /\ comparison.total = Cardinality(Present)
             /\ comparison.v1_correct = Cardinality(PresentRight("pred_v1"))
             /\ comparison.v2_correct = Cardinality(PresentRight("pred_v2"))
             /\ cm /= NotCalled =>
                   /\ cm.true_positives = Cardinality(PresentWhere(1, 1))
                   /\ cm.true_negatives = Cardinality(PresentWhere(0, 0))
                   /\ cm.false_positives = Cardinality(PresentWhere(0, 1))
                   /\ cm.false_negatives = Cardinality(PresentWhere(1, 0))

\* four clients, one without outcome: three are validated, and the fourth,
\* whose actual_risk column reads 0, is in no count
C23_Witness ==
    /\ Validated
    /\ Len(df_metrics.rows) = 4
    /\ Cardinality(Present) = 3
    /\ \E i \in 1..4 : /\ df_metrics.rows[i].nps_score = NaN
                       /\ df_metrics.rows[i].actual_risk = 0
                       /\ df_metrics.rows[i].pred_v2 = 0
    /\ cm /= NotCalled /\ cm /= EmptyDict
    /\ cm.true_negatives + cm.false_positives
          + cm.false_negatives + cm.true_positives = 3
    /\ cm.true_negatives = 1
    /\ comparison.total = 3
    /\ loocv_result.total = 3

\* two of three outcomes present: nothing is validated
C23_TooFewPresent ==
    /\ Validated
    /\ Len(df_metrics.rows) = 3
    /\ Cardinality(Present) = 2
    /\ loocv_result = EmptyDict
    /\ cm = EmptyDict

(***************************************************************************)
(* Specification of the scorers over reordered weight tables: the loop     *)
(* "for factor, weight in FACTORS.items()" visits the items in the order   *)
(* the dict holds them, so a reordered dict is a reordered evaluation.     *)
(* One of the two tables is reordered by an exchange of two items or by a  *)
(* reversal; the table has one entity for which every present factor       *)
(* column is true, so that every present factor is active.                 *)
(***************************************************************************)
\* the items of F with those at positions i and j exchanged
Exchanged(F, i, j) ==
    [k \in 1..Len(F) |-> IF k = i THEN F[j] ELSE IF k = j THEN F[i] ELSE F[k]]

\* the items of F last to first
Reversed(F) == [k \in 1..Len(F) |-> F[Len(F) + 1 - k]]

\* the orders in which the items of F are evaluated
Reorderings(F) ==
    {F, Reversed(F)}
        \cup {Exchanged(F, i, j) : i, j \in 1..Len(F)}

\* F and G hold the same items
SameItems(F, G) ==
    /\ Len(F) = Len(G)
    /\ {F[k] : k \in 1..Len(F)} = {G[k] : k \in 1..Len(G)}
    /\ Cardinality({F[k] : k \in 1..Len(F)}) = Len(F)

OrderInit ==
    /\ \E C \in ColumnSets :
         df = [columns |-> C, rows |-> <<[c \in C |-> 1]>>]
    /\ \/ /\ factors_v1 \in Reorderings(FACTORS_V1)
          /\ factors_v2 = FACTORS_V2
       \/ /\ factors_v1 = FACTORS_V1
          /\ factors_v2 \in Reorderings(FACTORS_V2)
    /\ arm_v1 = NotCalled
    /\ arm_v2 = NotCalled
    /\ OthersIdle("order")

SpecOrder == OrderInit /\ [][ScoreNext]_vars

(***************************************************************************)
(* C24.  The score does not depend on the order in which the factors of    *)
(* the weight table are evaluated: with the items of a table reordered,    *)
(* each scorer returns for every entity the sum it returns with the table  *)
(* in the order the module defines.                                        *)
(***************************************************************************)
C24_OrderIndependent ==
    /\ SameItems(factors_v1, FACTORS_V1)
    /\ SameItems(factors_v2, FACTORS_V2)
    /\ arm_v1 /= NotCalled =>
         /\ arm_v1 = Returned(calculate_arm_v1(df))
         /\ arm_v1.value[1] = ActiveWeightSum(FACTORS_V1, factor_mapping_v1,
                                              df, 1)
    /\ arm_v2 /= NotCalled =>
         /\ arm_v2 = Returned(calculate_arm_v2(df))
         /\ arm_v2.value[1] = ActiveWeightSum(FACTORS_V2, factor_mapping_v2,
                                              df, 1)

\* the two heaviest v1 factors evaluated last to first: 17 + 15
C24_Witness ==
    /\ factors_v1 = Reversed(FACTORS_V1)
    /\ df.columns = {"factor_csuite_turnover", "factor_ma_attrition"}
    /\ arm_v1 = Returned(<<32>>)

\* backlog and the promoter credit exchanged in the v2 table: 15 - 5
C24_ExchangedV2 ==
    /\ factors_v2 = Exchanged(FACTORS_V2, 1, 14)
    /\ factors_v2[1] = <<"nps_promoter", -5>>
    /\ df.columns = {"factor_backlog_gt10", "is_promoter"}
    /\ arm_v2 = Returned(<<10>>)

(***************************************************************************)
(* Specification of repeated scoring calls: the module-level weight tables *)
(* and the caller's table across any sequence of calls of the two scorers. *)
(* FACTORS_V1 and FACTORS_V2 are named in validation.py at their           *)
(* definitions and in the two loop headers and nowhere else in the         *)
(* pipeline; the loop reads them through .items().  The loop reads the     *)
(* table through df.columns and df[col]; fillna and astype return new      *)
(* Series and "arm +=" accumulates into the Series the call created.       *)
(***************************************************************************)
\* a mutation: df[col].fillna(False, inplace=True), which writes False into
\* the missing cells of every column the loop reads
TableAfterArmInPlace(FACTORS, mapping, d) ==
    LET read == {mapping[FACTORS[k][1]] : k \in 1..Len(FACTORS)}
    IN  [columns |-> d.columns,
         rows |-> [i \in 1..Len(d.rows) |->
                     [c \in d.columns |->
                         IF c \in read THEN fillna(d.rows[i][c], 0)
                         ELSE d.rows[i][c]]]]

\* the caller's table after the loop over FACTORS has run on it
TableAfterArm(FACTORS, mapping, d) == d

\* the weight table after the loop has iterated over its items
ItemsAfterArm(FACTORS) == FACTORS

\* any call of calculate_arm_v1(df), the first or a later one
CallArmV1 ==
    /\ arm_v1' = Returned(calculate_arm(factors_v1, factor_mapping_v1, df))
    /\ df' = TableAfterArm(factors_v1, factor_mapping_v1, df)
    /\ factors_v1' = ItemsAfterArm(factors_v1)
    /\ UNCHANGED <<arm_v2, factors_v2, aliasVars, spVars, rocVars, cmVars,
                   cmpVars, looVars, mainVars, sweepVars, declVars, factVars,
                   cohenVars, bonfVars, cutVars>>

\* any call of calculate_arm_v2(df)
CallArmV2 ==
    /\ arm_v2' = Returned(calculate_arm(factors_v2, factor_mapping_v2, df))
    /\ df' = TableAfterArm(factors_v2, factor_mapping_v2, df)
    /\ factors_v2' = ItemsAfterArm(factors_v2)
    /\ UNCHANGED <<arm_v1, factors_v1, aliasVars, spVars, rocVars, cmVars,
                   cmpVars, looVars, mainVars, sweepVars, declVars, factVars,
                   cohenVars, bonfVars, cutVars>>

FrameNext == CallArmV1 \/ CallArmV2

SpecFrame == ScoreInit /\ [][FrameNext]_vars

(***************************************************************************)
(* C25.  Whatever sequence of scoring calls is made, the two weight tables *)
(* hold after every call exactly the names and weights they were defined   *)
(* with, and the table passed to the call is left as it was.               *)
(***************************************************************************)
C25_TablesNeverMutated ==
    [][/\ factors_v1' = FACTORS_V1
       /\ factors_v2' = FACTORS_V2
       /\ df' = df]_vars

\* both scorers have run on a table with a missing cell in a column both
\* read, and the cell is still missing
C25_Witness ==
    /\ arm_v1 = Returned(<<0>>)
    /\ arm_v2 = Returned(<<15>>)
    /\ df.columns = {"is_detractor", "factor_backlog_gt10"}
    /\ df.rows[1]["is_detractor"] = NaN
    /\ df.rows[1]["factor_backlog_gt10"] = 1
    /\ factors_v1 = FACTORS_V1
    /\ factors_v2 = FACTORS_V2

(***************************************************************************)
(* C26.  The Wilson interval reported by loocv_accuracy satisfies          *)
(* 0 <= ci_lower <= accuracy <= ci_upper <= 1, and at a fixed accuracy     *)
(* the interval is at least as wide over fewer valid predictions and at    *)
(* most as wide over more.  The bounds are compared at the grain of        *)
(* thousandths the model carries them in.                                  *)
(***************************************************************************)
\* ci_upper - ci_lower for count correct out of nobs valid predictions
WilsonWidth(count, nobs) == RSub(WilsonUpp(count, nobs), WilsonLow(count, nobs))

\* the <<count, nobs>> of the same accuracy as correct out of total
SameAccuracy(correct, total) ==
    {cn \in (0..(2 * MaxLoo)) \X (1..(2 * MaxLoo)) :
        /\ cn[1] <= cn[2]
        /\ cn[1] * total = correct * cn[2]}

C26_AllWrong ==
    /\ loo_result.kind = "returned"
    /\ loo_result.value.total = 3
    /\ loo_result.value.correct = 0
    /\ loo_result.value.ci_lower = <<0, 1>>
    /\ RLess(<<1, 2>>, loo_result.value.ci_upper)

\* every prediction right: the upper bound meets the accuracy at 1
C26_AllRight ==
    /\ loo_result.kind = "returned"
    /\ loo_result.value.total = 3
    /\ loo_result.value.correct = 3
    /\ loo_result.value.ci_upper = <<1, 1>>
    /\ RLess(loo_result.value.ci_lower, <<1, 2>>)

(***************************************************************************)
(* C27.  In the pipeline the prediction of each fold is the v2 at-risk     *)
(* prediction of the held-out entity in the full table, so the             *)
(* cross-validation's correct and total equal v2_correct and total of the  *)
(* paired comparison, and correct equals the true positives plus the true  *)
(* negatives of the v2 confusion matrix whenever that matrix was computed. *)
(***************************************************************************)
\* the pred_v2 column of the full table over the entities of present
\* outcome, in table order
PresentPredV2 ==
    Select(Column(df_metrics, "pred_v2"),
           [i \in 1..Len(df_metrics.rows) |-> i \in Present], 1)

C27_LoocvIsFullTablePrediction ==
    (Validated /\ loocv_result /= EmptyDict) =>
        /\ loocv_result.predictions = PresentPredV2
        /\ loocv_result.total = comparison.total
        /\ loocv_result.correct = comparison.v2_correct
        /\ cm /= NotCalled =>
              loocv_result.correct = cm.true_positives + cm.true_negatives

\* four validated clients of which the v2 score flags some and not others,
\* and some predictions are right and some wrong
C27_Witness ==
    /\ Validated
    /\ loocv_result /= EmptyDict
    /\ cm /= NotCalled
    /\ loocv_result.total = 4
    /\ loocv_result.correct = 2
    /\ comparison.v2_correct = 2
    /\ cm.true_positives = 1
    /\ cm.true_negatives = 1
    /\ \E i \in 1..4 : loocv_result.predictions[i] = 1
    /\ \E i \in 1..4 : loocv_result.predictions[i] = 0

(***************************************************************************)
(* Specification of compare_models over every triple of arrays of one      *)
(* length, the empty ones included.                                        *)
(***************************************************************************)
CmpAnyInit ==
    /\ CmpArraysFrom(0)
    /\ cmp_result = NotCalled
    /\ OthersIdle("compare")

SpecCompareAny == CmpAnyInit /\ [][CmpNext]_vars

(***************************************************************************)
(* C28.  For any ground-truth and prediction arrays of one length,         *)
(* compare_models returns a record with v2_correct - v1_correct = b - c    *)
(* and b + c <= total; with identical prediction arrays b = c = 0 and the  *)
(* difference is not significant; and with the two classifiers exchanged   *)
(* b and c are exchanged while the p-value and the significance flag stay. *)
(***************************************************************************)
\* the identities on the record r, s being the record of the exchanged call
DiscordantIdentities(r, s) ==
    /\ r.v2_correct - r.v1_correct
          = r.v1_wrong_v2_right - r.v1_right_v2_wrong
    /\ r.v1_wrong_v2_right + r.v1_right_v2_wrong <= r.total
    /\ cmp_pred_v1 = cmp_pred_v2 =>
          /\ r.v1_wrong_v2_right = 0
          /\ r.v1_right_v2_wrong = 0
          /\ ~r.significant_difference
    /\ s.v1_wrong_v2_right = r.v1_right_v2_wrong
    /\ s.v1_right_v2_wrong = r.v1_wrong_v2_right
    /\ s.mcnemar_p_value = r.mcnemar_p_value
    /\ s.significant_difference = r.significant_difference

C28_CompareModelsIdentities ==
    cmp_result /= NotCalled =>
        /\ cmp_result.kind = "returned"
        /\ DiscordantIdentities(
              cmp_result.value,
              compare_models(cmp_y_true, cmp_pred_v2, cmp_pred_v1))

\* the identities hold for every call with at least one entity
C28_HoldsFromOneEntity ==
    (cmp_result /= NotCalled /\ Len(cmp_y_true) >= 1) =>
        /\ cmp_result.kind = "returned"
        /\ DiscordantIdentities(
              cmp_result.value,
              compare_models(cmp_y_true, cmp_pred_v2, cmp_pred_v1))

\* the three empty arrays: the call raises and reports nothing
C28_EmptyArraysRaise ==
    /\ cmp_y_true = <<>>
    /\ cmp_pred_v1 = <<>>
    /\ cmp_pred_v2 = <<>>
    /\ cmp_result = Raised

\* b = 7 and c = 1: exchanged they are 1 and 7, at the same p-value 9/128
C28_Exchanged ==
    /\ cmp_result.kind = "returned"
    /\ cmp_result.value.v1_wrong_v2_right = 7
    /\ cmp_result.value.v1_right_v2_wrong = 1
    /\ cmp_result.value.v2_correct - cmp_result.value.v1_correct = 6
    /\ cmp_result.value.mcnemar_p_value = <<9, 128>>
    /\ compare_models(cmp_y_true, cmp_pred_v2, cmp_pred_v1).v1_wrong_v2_right
          = 1
    /\ ~cmp_result.value.significant_difference

(***************************************************************************)
(* C29.  The v1 score of a table is the v1 score of the table with every   *)
(* column of a v2-only factor removed, and the v2 score is the v2 score of *)
(* the table with the column of the v1-only factor removed: two tables     *)
(* that agree on one version's columns get that version's scores equal,    *)
(* whatever they hold, or lack, in the other version's own columns.        *)
(***************************************************************************)
\* the columns of the factors only v2 weighs: backlog, resolution time,
\* knowledge gap, defect rate, declining NPS and communication
OnlyV2Columns ==
    {"factor_backlog_gt10", "factor_resolution_gt700h",
     "factor_tech_knowledge_gap", "factor_defect_rate_gt30",
     "declining_2_periods", "factor_communication"}

\* the column of the factor only v1 weighs: the resolution SLA
OnlyV1Columns == {"factor_resolution_sla_lt90"}

C29_ScoresReadOwnColumns ==
    /\ arm_v1 /= NotCalled =>
          arm_v1 = Returned(calculate_arm_v1(DropColumns(df, OnlyV2Columns)))
    /\ arm_v2 /= NotCalled =>
          arm_v2 = Returned(calculate_arm_v2(DropColumns(df, OnlyV1Columns)))

\* the named columns are exactly those one mapping has and the other lacks
C29_OwnColumnsAsNamed ==
    LET ColumnsV1 == {factor_mapping_v1[f] : f \in DOMAIN factor_mapping_v1}
        ColumnsV2 == {factor_mapping_v2[f] : f \in DOMAIN factor_mapping_v2}
    IN  /\ ColumnsV2 \ ColumnsV1 = OnlyV2Columns
        /\ ColumnsV1 \ ColumnsV2 = OnlyV1Columns

\* a detractor with a backlog: the backlog, a v2-only factor, is in the v2
\* score and not in the v1 score
C29_Witness ==
    /\ df.columns = {"is_detractor", "factor_backlog_gt10"}
    /\ df.rows = <<[is_detractor |-> 1, factor_backlog_gt10 |-> 1]>>
    /\ arm_v1 = Returned(<<10>>)
    /\ arm_v2 = Returned(<<27>>)

\* a detractor below the resolution SLA: the SLA, the v1-only factor, is in
\* the v1 score and not in the v2 score
C29_SlaOnlyInV1 ==
    /\ df.columns = {"is_detractor", "factor_resolution_sla_lt90"}
    /\ df.rows = <<[is_detractor |-> 1, factor_resolution_sla_lt90 |-> 1]>>
    /\ arm_v1 = Returned(<<15>>)
    /\ arm_v2 = Returned(<<12>>)

(***************************************************************************)
(* Client name aliases: extract.py, _client_alias_cache,                   *)
(* extract_client_aliases and normalize_client_name.  A dict is the        *)
(* function from its keys to its values; it is falsy exactly when it has   *)
(* no key.  The names are drawn from a few strings with and without        *)
(* surrounding blanks and capitals.                                        *)
(***************************************************************************)
\* str.strip() on the strings of the model
Strip(str) ==
    CASE str = " " -> ""
      [] str = " a" -> "a"
      [] str = "A " -> "A"
      [] OTHER -> str

\* str.lower() on the stripped strings of the model
Lower(str) ==
    CASE str = "A" -> "a"
      [] str = "B" -> "b"
      [] OTHER -> str

\* aliases[display] = canonical
DictSet(aliases, key, value) ==
    [k \in DOMAIN aliases \cup {key} |->
        IF k = key THEN value ELSE aliases[k]]

RECURSIVE AliasLoop(_, _, _)
\* lines 44-49: the loop over response.data from row k on
AliasLoop(data, k, aliases) ==
    IF k > Len(data) THEN aliases
    ELSE LET display   == Strip(data[k].display_name)
             canonical == Strip(data[k].canonical_name)
         IN  AliasLoop(data, k + 1,
                       IF display /= "" /\ canonical /= ""
                       THEN DictSet(aliases, display, canonical)
                       ELSE aliases)

\* lines 40-42: the rows the query returns, those with is_active true
ActiveRows(store) ==
    Select(store, [k \in 1..Len(store) |-> store[k].is_active], 1)

\* line 36: "if _client_alias_cache", true of a dict with at least one key
CacheFilled(cache) == DOMAIN cache /= {}

\* extract_client_aliases(): the dict returned, the cache left behind and
\* the number of queries sent
extract_client_aliases(cache, store) ==
    IF CacheFilled(cache)
    THEN [aliases |-> cache, cache |-> cache, queries |-> 0]
    ELSE LET aliases == AliasLoop(ActiveRows(store), 1, <<>>)
         IN  [aliases |-> aliases, cache |-> aliases, queries |-> 1]

\* lines 75-84 of normalize_client_name: the lookup of the stripped name;
\* no two keys of the model differ only in case, so the order of the
\* case-insensitive scan is immaterial
LookupAlias(name, aliases) ==
    IF name \in DOMAIN aliases THEN aliases[name]
    ELSE IF \E display \in DOMAIN aliases : Lower(display) = Lower(name)
         THEN aliases[CHOOSE display \in DOMAIN aliases :
                          Lower(display) = Lower(name)]
         ELSE name

\* the rows the alias table may hold
AliasRows ==
    [display_name : {" ", "a", " a", "B"},
     canonical_name : {"", "x", "y"},
     is_active : BOOLEAN]

\* the names handed to normalize_client_name
RawNames == {"", "a", "A ", "b", "c"}

AliasInit ==
    /\ \E n \in 0..MaxAliases : al_store \in [1..n -> AliasRows]
    /\ al_cache = <<>>
    /\ al_fetches = 0
    /\ al_calls = 0
    /\ al_result = NotCalled
    /\ OthersIdle("alias")

\* a call of extract_client_aliases()
ExtractClientAliases ==
    /\ al_calls < MaxCalls
    /\ LET call == extract_client_aliases(al_cache, al_store)
       IN  /\ al_cache' = call.cache
           /\ al_fetches' = al_fetches + call.queries
           /\ al_result' = Returned(call.aliases)
    /\ al_calls' = al_calls + 1
    /\ UNCHANGED <<al_store, notAlias>>

\* a call of normalize_client_name(name) without a pre-fetched dict
NormalizeClientName ==
    /\ al_calls < MaxCalls
    /\ \E name \in RawNames :
          IF name = ""
          THEN /\ al_result' = Returned(name)
               /\ UNCHANGED <<al_cache, al_fetches>>
          ELSE LET call == extract_client_aliases(al_cache, al_store)
               IN  /\ al_cache' = call.cache
                   /\ al_fetches' = al_fetches + call.queries
                   /\ al_result' = Returned(LookupAlias(Strip(name),
                                                        call.aliases))
    /\ al_calls' = al_calls + 1
    /\ UNCHANGED <<al_store, notAlias>>

AliasNext == ExtractClientAliases \/ NormalizeClientName

SpecAlias == AliasInit /\ [][AliasNext]_vars

(***************************************************************************)
(* C30.  The alias table is fetched from the datastore at most once:       *)
(* after the first fetch every later call returns the cached mapping       *)
(* without querying, whatever the fetched table contained.                 *)
(***************************************************************************)
C30_FetchedAtMostOnce == al_fetches <= 1

\* once the cache holds an alias no call queries again or changes it
C30_NoRefetchOnceNonEmpty ==
    [][DOMAIN al_cache /= {} =>
          /\ al_fetches' = al_fetches
          /\ al_cache' = al_cache]_vars

\* every call finds the cache without a key exactly when every fetch so
\* far produced no alias, and then each fetching call has queried
C30_FetchesWhileEmpty ==
    /\ DOMAIN al_cache /= {} => al_fetches = 1
    /\ DOMAIN al_cache = {} => al_fetches <= al_calls

\* an alias table with no row: three calls, three queries
C30_EmptyTableRefetched ==
    /\ al_store = <<>>
    /\ al_calls = 3
    /\ al_fetches = 3
    /\ al_cache = <<>>

\* a table whose only rows are inactive or blank after stripping is
\* fetched again by the second call
C30_BlankRowsRefetched ==
    /\ Len(al_store) = 2
    /\ al_store[1].is_active /\ al_store[1].display_name = " "
    /\ ~al_store[2].is_active /\ al_store[2].display_name = "a"
    /\ al_fetches = 2

\* a table with an alias: three calls, one query, and "A " resolves
\* through the case-insensitive match
C30_CachedAfterFirstFetch ==
    /\ al_calls = 3
    /\ al_fetches = 1
    /\ DOMAIN al_cache = {"a"}
    /\ al_cache["a"] = "x"
    /\ al_result = Returned("x")
====
